---- MODULE Spec2Model ----
(***************************************************************************)
(* Dynamic form engine: the field type registry, the control-tree builder  *)
(* (buildForm), the value synchronizer (setFormValues) with its trigger    *)
(* (the two effects of DynamicFormComponent), and the list operations of   *)
(* SubformInputComponent (addItem, deleteItem, dropItem).                  *)
(*                                                                         *)
(* Object identity of list item nodes is tracked relationally: every item  *)
(* carries a history field `ref`, the 1-based position the same node       *)
(* object had in its list in the state before the last step, or 0 when the *)
(* last step constructed the node.  Every action starts from Cur, the      *)
(* current tree with ref = position.                                       *)
(***************************************************************************)
EXTENDS Integers, Sequences, FiniteSets, TLC

VARIABLES
  registry,            \* FieldComponentRegistryService: the three maps and `initialized`
  formConfig,          \* input signal formConfig
  formValues,          \* input signal formValues (JUndefined when not bound)
  dynamicForm,         \* signal dynamicForm: null or the FormGroup's controls
  formValuesApplied,   \* signal formValuesApplied
  lastFormValuesHash,  \* signal lastFormValuesHash
  configEffectDirty,   \* the first effect of the constructor is scheduled
  valuesEffectDirty,   \* the second effect of the constructor is scheduled
  dialog,              \* the open SubformItemDialogComponent, if any
  timers,              \* callbacks queued on asyncScheduler, oldest first
  last,                \* history: the operation of the last step and its input
  hist,                \* history: the values of the trigger's last apply, the
                       \* number of its applies since the host last changed an
                       \* input, and the host's last registration for each tag
  errorMessageRegistry, \* ErrorMessageRegistryService: errorMessageMap and `initialized`
  fieldControl,        \* a control shown by a field adapter: its errors, touched, label
  fieldError,          \* the string getFieldError returned for it last
  formData,            \* signal formData
  formErrors           \* signal formErrors

vars == << registry, formConfig, formValues, dynamicForm, formValuesApplied,
           lastFormValuesHash, configEffectDirty, valuesEffectDirty, dialog,
           timers, last, hist, errorMessageRegistry, fieldControl, fieldError,
           formData, formErrors >>
viewVars == << errorMessageRegistry, fieldControl, fieldError, formData, formErrors >>

(***************************************************************************)
(* Bounds of the model.                                                    *)
(***************************************************************************)
MaxCand == 2       \* longest array in an external values object
MaxLen == 3        \* longest list the add dialog may still extend
MaxPending == 2    \* most callbacks queued on asyncScheduler at once
MaxApplies == 2    \* the count of applies per host change saturates here

(***************************************************************************)
(* JavaScript values.  An object is the sequence of its properties in      *)
(* insertion order, which is what Object.keys and JSON.stringify see.      *)
(***************************************************************************)
JNull == [k |-> "null"]
JUndefined == [k |-> "undefined"]
JStr(s) == [k |-> "str", s |-> s]
JBool(b) == [k |-> "bool", b |-> b]
JArr(a) == [k |-> "arr", a |-> a]
JNum(n) == [k |-> "num", n |-> n]
JObj(o) == [k |-> "obj", o |-> o]
Prop(key, val) == [key |-> key, val |-> val]

HasKey(o, key) == \E i \in 1..Len(o) : o[i].key = key

GetProp(o, key) ==
  IF HasKey(o, key)
  THEN o[CHOOSE i \in 1..Len(o) : o[i].key = key].val
  ELSE JUndefined

SetProp(o, key, val) ==
  IF HasKey(o, key)
  THEN [i \in 1..Len(o) |-> IF o[i].key = key THEN Prop(key, val) ELSE o[i]]
  ELSE Append(o, Prop(key, val))

\* typeof v === 'object' && v !== null
IsObjectLike(v) == v.k \in {"obj", "arr"}
\* typeof v === 'object' && v !== null && !Array.isArray(v)
IsPlainRecord(v) == v.k = "obj"
IsArray(v) == v.k = "arr"
Truthy(v) == v.k \notin {"null", "undefined"} /\ v # JStr("") /\ v # JBool(FALSE)

RECURSIVE JSONstringify(_)
RECURSIVE StringifyElems(_)
RECURSIVE StringifyProps(_)
\* JSON.stringify as a token sequence: properties in insertion order,
\* undefined-valued properties dropped, undefined array elements as null.
JSONstringify(v) ==
  CASE v.k = "null" -> << "null" >>
    [] v.k = "undefined" -> << >>
    [] v.k = "str" -> << "quote", v.s >>
    [] v.k = "bool" -> << IF v.b THEN "true" ELSE "false" >>
    [] v.k = "arr" -> << "[" >> \o StringifyElems(v.a) \o << "]" >>
    [] v.k = "obj" -> << "{" >> \o StringifyProps(v.o) \o << "}" >>

StringifyElems(a) ==
  IF a = << >> THEN << >>
  ELSE (IF Head(a).k = "undefined" THEN << "null" >> ELSE JSONstringify(Head(a)))
       \o << "," >> \o StringifyElems(Tail(a))

StringifyProps(o) ==
  IF o = << >> THEN << >>
  ELSE (IF Head(o).val.k = "undefined" THEN << >>
        ELSE << Head(o).key, ":" >> \o JSONstringify(Head(o).val) \o << "," >>)
       \o StringifyProps(Tail(o))

(***************************************************************************)
(* Field type registry (FieldComponentRegistryService).                    *)
(***************************************************************************)
Tags == {"text", "email", "checkbox", "subform", "custom"}
NoEntry == "none"

\* The built-in table; the single-value types not listed here (number,
\* password, date, textarea, select, radio) are registered exactly like text.
FIELD_COMPONENT_CONFIGS ==
  << [type |-> "text", component |-> "TextInputComponent"],
     [type |-> "email", component |-> "EmailInputComponent"],
     [type |-> "checkbox", component |-> "CheckboxInputComponent"],
     [type |-> "subform", component |-> "SubformInputComponent"] >>

getControlTypeFromComponent(component) ==
  IF component = "SubformInputComponent" THEN "array" ELSE "control"

\* getInitialValue() of the component, null turned into undefined
getInitialValueFromComponent(component) ==
  IF component = "CheckboxInputComponent" THEN JBool(FALSE) ELSE JUndefined

EmptyRegistry ==
  [componentRegistry |-> [t \in Tags |-> NoEntry],
   controlTypeRegistry |-> [t \in Tags |-> NoEntry],
   initialValueRegistry |-> [t \in Tags |-> JUndefined],
   initialized |-> FALSE]

register(reg, registration) ==
  [reg EXCEPT
     !.componentRegistry[registration.fieldType] = registration.component,
     !.controlTypeRegistry[registration.fieldType] = registration.controlType,
     !.initialValueRegistry[registration.fieldType] =
        IF registration.initialValue # JUndefined
        THEN registration.initialValue ELSE @]

RECURSIVE registerAll(_, _)
registerAll(reg, configs) ==
  IF configs = << >> THEN reg
  ELSE registerAll(
         register(reg,
           [fieldType |-> Head(configs).type,
            component |-> Head(configs).component,
            controlType |-> getControlTypeFromComponent(Head(configs).component),
            initialValue |-> getInitialValueFromComponent(Head(configs).component)]),
         Tail(configs))

ensureInitialized(reg) ==
  IF reg.initialized THEN reg
  ELSE [registerAll(reg, FIELD_COMPONENT_CONFIGS) EXCEPT !.initialized = TRUE]

\* The getters; each runs ensureInitialized first, and an action that uses
\* one of them leaves registry' = ensureInitialized(registry).
get(reg, fieldType) == ensureInitialized(reg).componentRegistry[fieldType]
has(reg, fieldType) == ensureInitialized(reg).componentRegistry[fieldType] # NoEntry

\* variant of clear() that also closes the lazy initialisation
clear_andInitialized(reg) ==
  [reg EXCEPT
     !.componentRegistry = [t \in Tags |-> NoEntry],
     !.controlTypeRegistry = [t \in Tags |-> NoEntry],
     !.initialValueRegistry = [t \in Tags |-> JUndefined],
     !.initialized = TRUE]

\* clear(): the three maps are emptied; initialized is left as it is
clear(reg) ==
  [reg EXCEPT
     !.componentRegistry = [t \in Tags |-> NoEntry],
     !.controlTypeRegistry = [t \in Tags |-> NoEntry],
     !.initialValueRegistry = [t \in Tags |-> JUndefined]]
getControlType(reg, fieldType) == ensureInitialized(reg).controlTypeRegistry[fieldType]
getInitialValue(reg, fieldType) ==
  LET r == ensureInitialized(reg)
  IN IF r.initialValueRegistry[fieldType] # JUndefined
     THEN r.initialValueRegistry[fieldType] ELSE JNull

(***************************************************************************)
(* Descriptors (FormConfig, FormField, SubformInputConfig).                *)
(***************************************************************************)
Undef == -1    \* an optional number that is not given

NoFieldConfig ==
  [hasFormConfig |-> FALSE, formConfig |-> << >>,
   minItems |-> Undef, maxItems |-> Undef,
   allowDragDrop |-> TRUE, confirmDelete |-> TRUE,
   minLength |-> Undef]

Field(name, type, required) ==
  [name |-> name, type |-> type, required |-> required, config |-> NoFieldConfig]

SubformConfig(subFields, minItems, maxItems, allowDragDrop, confirmDelete) ==
  [hasFormConfig |-> TRUE, formConfig |-> subFields,
   minItems |-> minItems, maxItems |-> maxItems,
   allowDragDrop |-> allowDragDrop, confirmDelete |-> confirmDelete]

\* a text field whose config sets minLength
TextField(name, required, minLength) ==
  [name |-> name, type |-> "text", required |-> required,
   config |-> [NoFieldConfig EXCEPT !.minLength = minLength]]

SubformField(name, cfg) ==
  [name |-> name, type |-> "subform", required |-> FALSE, config |-> cfg]

\* the sub-descriptor of every list field of the model: one required text field
ItemFields == << Field("s", "text", TRUE) >>

ListField == SubformField("items", SubformConfig(ItemFields, 1, 3, TRUE, FALSE))
ListFieldTight == SubformField("items", SubformConfig(ItemFields, 2, 2, TRUE, FALSE))
ListFieldFixed == SubformField("items", SubformConfig(ItemFields, Undef, Undef, FALSE, TRUE))

\* The descriptors the host may bind: a single-value field with a list, an
\* unregistered type before, between and after registered ones, and a
\* repeated field name.
ConfigA == [name |-> "A", fields |-> << Field("a", "text", FALSE), ListField >>]
ConfigB == [name |-> "B", fields |-> << Field("u", "custom", FALSE),
                                        Field("c", "checkbox", FALSE),
                                        Field("w", "custom", TRUE),
                                        Field("a", "text", TRUE) >>]
ConfigC == [name |-> "C", fields |-> << Field("c", "checkbox", TRUE),
                                        Field("u", "custom", FALSE) >>]
ConfigD == [name |-> "D", fields |-> << Field("a", "text", FALSE),
                                        Field("a", "checkbox", FALSE) >>]
ConfigE == [name |-> "E", fields |-> << ListFieldFixed >>]
\* a required email field with a list of at least one item, and two required
\* single-value fields of which one is a checkbox
ConfigF == [name |-> "F", fields |-> << Field("email", "email", TRUE), ListField >>]
ConfigN == [name |-> "N", fields |-> << Field("a", "text", FALSE), ListFieldTight >>]
ConfigM == [name |-> "M", fields |-> << TextField("t", TRUE, 2) >>]
ConfigG == [name |-> "G", fields |-> << Field("c", "checkbox", TRUE),
                                        Field("a", "text", TRUE) >>]
Configs == {ConfigA, ConfigB, ConfigC, ConfigD}

FieldNames(config) == {config.fields[i].name : i \in 1..Len(config.fields)}
UniqueNames(config) ==
  \A i, j \in 1..Len(config.fields) :
     config.fields[i].name = config.fields[j].name => i = j

(***************************************************************************)
(* Control nodes.  A FormGroup is the sequence of its named controls in    *)
(* insertion order.                                                        *)
(***************************************************************************)
NewControl(name, value) ==
  [name |-> name, kind |-> "control", value |-> value, items |-> << >>,
   touched |-> FALSE, rules |-> FALSE, validatedLength |-> 0]
NewGroup(name) ==
  [name |-> name, kind |-> "group", value |-> JNull, items |-> << >>,
   touched |-> FALSE, rules |-> FALSE, validatedLength |-> 0]
NewArray(name) ==
  [name |-> name, kind |-> "array", value |-> JNull, items |-> << >>,
   touched |-> FALSE, rules |-> FALSE, validatedLength |-> 0]

\* AbstractControl.updateValueAndValidity of a top-level control: the rules
\* run again; validatedLength is the length of the list they have seen, the
\* one the size failures in control.errors come from.
updateValueAndValidity_skipped(node) == node
updateValueAndValidity(node) == [node EXCEPT !.validatedLength = Len(node.items)]

\* an item FormGroup of a list: its controls, whether validators are attached
NewItem(ctl, rules) == [ref |-> 0, ctl |-> ctl, rules |-> rules, touched |-> FALSE]

HasControl(controls, name) == \E i \in 1..Len(controls) : controls[i].name = name
ControlAt(controls, name) ==
  controls[CHOOSE i \in 1..Len(controls) : controls[i].name = name]

\* formControls[field.name] = control: a repeated key keeps its first place
PutControl(controls, node) ==
  IF HasControl(controls, node.name)
  THEN [i \in 1..Len(controls) |->
          IF controls[i].name = node.name THEN node ELSE controls[i]]
  ELSE Append(controls, node)

NullForm == [isNull |-> TRUE, controls |-> << >>]
Form(controls) == [isNull |-> FALSE, controls |-> controls]

\* the tree with every item's history field set to its current position
Renumber(controls) ==
  [i \in 1..Len(controls) |->
     [controls[i] EXCEPT !.items =
        [j \in 1..Len(@) |-> [@[j] EXCEPT !.ref = j]]]]

Cur == Renumber(dynamicForm.controls)

(***************************************************************************)
(* Control-tree builder.                                                   *)
(***************************************************************************)
\* variant: every kind built as a single-value control
createControlByType_singleValueOnly(name, controlType, initialValue) ==
  NewControl(name, IF initialValue # JUndefined THEN initialValue ELSE JNull)

createControlByType(name, controlType, initialValue) ==
  CASE controlType = "control" ->
         NewControl(name, IF initialValue # JUndefined THEN initialValue ELSE JNull)
    [] controlType = "group" -> NewGroup(name)
    [] controlType = "array" -> NewArray(name)
    [] OTHER ->
         NewControl(name, IF initialValue # JUndefined THEN initialValue ELSE JNull)

getFieldComponentType(reg, field) == get(reg, field.type)

RECURSIVE buildControls(_, _, _)
buildControls(fields, reg, formControls) ==
  IF fields = << >> THEN formControls
  ELSE LET field == Head(fields)
           componentType == getFieldComponentType(reg, field)
           controlType == getControlType(reg, field.type)
           initialValue == getInitialValue(reg, field.type)
       IN buildControls(Tail(fields), reg,
            IF componentType = NoEntry THEN formControls
            ELSE IF controlType = NoEntry
                 THEN PutControl(formControls, NewControl(field.name, JNull))
                 ELSE PutControl(formControls,
                        createControlByType(field.name, controlType, initialValue)))

buildForm(config, reg) == Form(buildControls(config.fields, reg, << >>))

(***************************************************************************)
(* Value synchronizer (setFormValues).                                     *)
(***************************************************************************)
\* FormGroup.patchValue on an item: every key of the record that names a
\* control of the item sets that control; a value with no named keys (a
\* primitive, an empty array) sets nothing.
patchItem(item, rec) ==
  IF ~IsPlainRecord(rec) THEN item
  ELSE [item EXCEPT !.ctl =
          [j \in 1..Len(@) |->
             IF HasKey(rec.o, @[j].key)
             THEN Prop(@[j].key, GetProp(rec.o, @[j].key)) ELSE @[j]]]

\* FormArray.patchValue: position by position, as far as both reach
patchArray(items, arr) ==
  [i \in 1..Len(items) |->
     IF i <= Len(arr) THEN patchItem(items[i], arr[i]) ELSE items[i]]

\* patchValue of one top-level control
patchControl(node, value) ==
  CASE node.kind = "control" -> [node EXCEPT !.value = value]
    [] node.kind = "array" ->
         IF IsArray(value)
         THEN updateValueAndValidity([node EXCEPT !.items = patchArray(@, value.a)])
         ELSE node
    [] OTHER -> node

\* form.patchValue(fv, { emitEvent: false }), fv the normalised object
patchValue(controls, fv) ==
  [i \in 1..Len(controls) |->
     IF HasKey(fv, controls[i].name)
     THEN patchControl(controls[i], GetProp(fv, controls[i].name))
     ELSE controls[i]]

\* variant: the values object is patched as given, null entries included
normaliseValues_keepNull(fields, reg, values, fv) == values

\* the first loop of setFormValues: the normalised object (formValues in the source)
RECURSIVE normaliseValues(_, _, _, _)
normaliseValues(fields, reg, values, fv) ==
  IF fields = << >> THEN fv
  ELSE LET field == Head(fields)
           fieldValue == GetProp(values, field.name)
           controlType == getControlType(reg, field.type)
           next ==
             IF fieldValue = JUndefined \/ fieldValue = JNull THEN fv
             ELSE IF controlType = NoEntry
                  THEN SetProp(fv, field.name, fieldValue)
             ELSE IF controlType = "array"
                  THEN IF IsArray(fieldValue)
                       THEN SetProp(fv, field.name,
                              JArr([i \in 1..Len(fieldValue.a) |->
                                      IF IsObjectLike(fieldValue.a[i])
                                      THEN fieldValue.a[i] ELSE JObj(<< >>)]))
                       ELSE fv
             ELSE IF controlType = "group"
                  THEN IF IsPlainRecord(fieldValue)
                       THEN SetProp(fv, field.name, fieldValue)
                       ELSE fv
             ELSE SetProp(fv, field.name, fieldValue)
       IN normaliseValues(Tail(fields), reg, values, next)

\* createFormGroupForSubformItem: << >> for null, else the one new FormGroup.
\* Every sub-field gets a control seeded with itemValue[name] ?? null, and no
\* validator is attached here.
createFormGroupForSubformItem(field, itemValue, reg) ==
  IF ~field.config.hasFormConfig THEN << >>
  ELSE LET subFields == field.config.formConfig
       IN << NewItem(
               [j \in 1..Len(subFields) |->
                  LET subFieldValue == GetProp(itemValue.o, subFields[j].name)
                  IN Prop(subFields[j].name,
                          IF subFieldValue = JUndefined THEN JNull ELSE subFieldValue)],
               FALSE) >>

\* arrayControl.clear() followed by the push loop over the raw array
RECURSIVE rebuildItems(_, _, _)
rebuildItems(field, arrayValue, reg) ==
  IF arrayValue = << >> THEN << >>
  ELSE (IF IsPlainRecord(Head(arrayValue))
        THEN createFormGroupForSubformItem(field, Head(arrayValue), reg)
        ELSE << >>)
       \o rebuildItems(field, Tail(arrayValue), reg)

\* FormArray.value
ArrayValue(items) == JArr([i \in 1..Len(items) |-> JObj(items[i].ctl)])

\* the same-length branch: patch in place when the serialisations differ
patchItemsInPlace(items, newValues) ==
  IF JSONstringify(ArrayValue(items)) # JSONstringify(JArr(newValues))
  THEN [i \in 1..Len(items) |->
          IF i <= Len(newValues) /\ IsPlainRecord(newValues[i])
          THEN patchItem(items[i], newValues[i]) ELSE items[i]]
  ELSE items

\* variant: the list is cleared and rebuilt whatever its length
reconcileArray_alwaysRebuild(node, field, arrayValue, reg) ==
  updateValueAndValidity([node EXCEPT !.items = rebuildItems(field, arrayValue, reg)])

reconcileArray(node, field, arrayValue, reg) ==
  IF Len(node.items) = 0 \/ Len(node.items) # Len(arrayValue)
  THEN updateValueAndValidity([node EXCEPT !.items = rebuildItems(field, arrayValue, reg)])
  ELSE updateValueAndValidity([node EXCEPT !.items = patchItemsInPlace(@, arrayValue)])

\* variant: a value that is not an array empties the list
RECURSIVE reconcileArrays_malformedClears(_, _, _, _)
reconcileArrays_malformedClears(fields, reg, values, controls) ==
  IF fields = << >> THEN controls
  ELSE LET field == Head(fields)
           controlType == getControlType(reg, field.type)
           arrayValue == GetProp(values, field.name)
           next ==
             IF controlType = "array" /\ Truthy(arrayValue)
                /\ HasControl(controls, field.name)
             THEN [i \in 1..Len(controls) |->
                     IF controls[i].name = field.name
                     THEN reconcileArray(controls[i], field,
                            IF IsArray(arrayValue) THEN arrayValue.a ELSE << >>, reg)
                     ELSE controls[i]]
             ELSE controls
       IN reconcileArrays_malformedClears(Tail(fields), reg, values, next)

\* the second loop of setFormValues
RECURSIVE reconcileArrays(_, _, _, _)
reconcileArrays(fields, reg, values, controls) ==
  IF fields = << >> THEN controls
  ELSE LET field == Head(fields)
           controlType == getControlType(reg, field.type)
           arrayValue == GetProp(values, field.name)
           next ==
             IF controlType = "array" /\ Truthy(arrayValue) /\ IsArray(arrayValue)
                /\ HasControl(controls, field.name)
             THEN [i \in 1..Len(controls) |->
                     IF controls[i].name = field.name
                     THEN reconcileArray(controls[i], field, arrayValue.a, reg)
                     ELSE controls[i]]
             ELSE controls
       IN reconcileArrays(Tail(fields), reg, values, next)

\* setFormValues on a built tree: patch, then reconcile the lists.  The
\* closing form.updateValueAndValidity() changes no stored field: validity
\* is a function of the values and the attached rules.
setFormValues(controls, config, reg, values) ==
  reconcileArrays(config.fields, reg, values.o,
    patchValue(controls, normaliseValues(config.fields, reg, values.o, << >>)))

(***************************************************************************)
(* External values.                                                        *)
(***************************************************************************)
ItemRecord(v) == JObj(<< Prop("s", JStr(v)) >>)
\* array elements: a full record, a record without the sub-field, a primitive
Elems == {ItemRecord("p"), JObj(<< >>), JStr("z")}
CandidateArrays == UNION {[1..n -> Elems] : n \in 0..MaxCand}

OptionalProp(key, vals) == {<< >>} \cup {<< Prop(key, v) >> : v \in vals}

\* every values object a caller may hand to setFormValues
ValueObjects ==
  {JObj(pa \o pi) :
     pa \in OptionalProp("a", {JNull, JStr("x")}),
     pi \in OptionalProp("items",
              {JNull, JStr("bad")} \cup {JArr(c) : c \in CandidateArrays})}

\* the values objects the host binds to the formValues input: the two key
\* orders of the same content are different objects with different text
HostArrays == {<< ItemRecord("p") >>, << ItemRecord("q"), ItemRecord("p") >>}
HostValueObjects ==
  LET pas == OptionalProp("a", {JStr("x")})
      pis == OptionalProp("items", {JArr(c) : c \in HostArrays})
  IN {JUndefined} \cup {JObj(pa \o pi) : pa \in pas, pi \in pis}
                  \cup {JObj(pi \o pa) : pa \in pas, pi \in pis}

\* full structural equality of two values objects
RECURSIVE StructEq(_, _)
StructEq(v, w) ==
  IF v.k # w.k THEN FALSE
  ELSE CASE v.k = "arr" ->
              /\ Len(v.a) = Len(w.a)
              /\ \A i \in 1..Len(v.a) : StructEq(v.a[i], w.a[i])
         [] v.k = "obj" ->
              /\ {v.o[i].key : i \in 1..Len(v.o)} = {w.o[i].key : i \in 1..Len(w.o)}
              /\ \A i \in 1..Len(v.o) : StructEq(v.o[i].val, GetProp(w.o, v.o[i].key))
         [] OTHER -> v = w

(***************************************************************************)
(* Error message registry (ErrorMessageRegistryService) and the lookup of   *)
(* a field's message (getFieldError).  A control's errors object is null or *)
(* the object of its failures, keyed by failure key in recording order.     *)
(***************************************************************************)
ErrorKeys == {"required", "email", "custom"}
NoMessageFunction == "none"
ERROR_MESSAGE_CONFIGS ==
  << [key |-> "required", messageFunction |-> "requiredMessage"],
     [key |-> "email", messageFunction |-> "emailMessage"] >>
EmptyErrorMessageRegistry ==
  [errorMessageMap |-> [k \in ErrorKeys |-> NoMessageFunction], initialized |-> FALSE]

\* The message functions: the built-in ones and one a host registers.
messageFunction(fn, errs, fieldLabel) ==
  CASE fn = "requiredMessage" -> JStr(fieldLabel \o " is required")
    [] fn = "emailMessage" -> JStr("Invalid email address")
    [] fn = "hostMessage" -> JStr("host message")

registerMessage(reg, errorKey, fn) ==
  [reg EXCEPT !.errorMessageMap[errorKey] = fn]

clearMessages(reg) ==
  [reg EXCEPT !.errorMessageMap = [k \in ErrorKeys |-> NoMessageFunction]]

RECURSIVE registerAllMessages(_, _)
registerAllMessages(reg, configs) ==
  IF configs = << >> THEN reg
  ELSE registerAllMessages(
         registerMessage(reg, Head(configs).key, Head(configs).messageFunction),
         Tail(configs))

ensureMessagesInitialized(reg) ==
  IF reg.initialized THEN reg
  ELSE [registerAllMessages(reg, ERROR_MESSAGE_CONFIGS) EXCEPT !.initialized = TRUE]

\* ErrorMessageRegistryService.has
hasErrorMessage(reg, errorKey) ==
  ensureMessagesInitialized(reg).errorMessageMap[errorKey] # NoMessageFunction

\* getErrorMessage after its ensureInitialized: null when no function is
\* registered for the key.
getErrorMessage(reg, errorKey, errs, fieldLabel) ==
  LET fn == reg.errorMessageMap[errorKey]
  IN IF fn = NoMessageFunction THEN JNull ELSE messageFunction(fn, errs, fieldLabel)

\* String(v) for the values a message field holds here.
String(v) ==
  CASE v.k = "str" -> v
    [] v.k = "bool" -> JStr(IF v.b THEN "true" ELSE "false")
    [] v.k = "null" -> JStr("null")
    [] OTHER -> JStr("undefined")

IsString(v) == v.k = "str"

\* The loop of getFieldError over Object.keys(errors), from property i on.
\* The loop without the branch for string details.
RECURSIVE errorLoop_messageFieldOnly(_, _, _, _)
errorLoop_messageFieldOnly(reg, errs, fieldLabel, i) ==
  IF i > Len(errs.o) THEN JStr("")
  ELSE LET errorKey == errs.o[i].key
           errorMessage == getErrorMessage(reg, errorKey, errs, fieldLabel)
           errorValue == errs.o[i].val
       IN IF Truthy(errorMessage) THEN errorMessage
          ELSE IF IsPlainRecord(errorValue) /\ HasKey(errorValue.o, "message")
          THEN String(GetProp(errorValue.o, "message"))
          ELSE errorLoop_messageFieldOnly(reg, errs, fieldLabel, i + 1)

RECURSIVE errorLoop(_, _, _, _)
errorLoop(reg, errs, fieldLabel, i) ==
  IF i > Len(errs.o) THEN JStr("")
  ELSE LET errorKey == errs.o[i].key
           errorMessage == getErrorMessage(reg, errorKey, errs, fieldLabel)
           errorValue == errs.o[i].val
       IN IF Truthy(errorMessage) THEN errorMessage
          ELSE IF IsString(errorValue) THEN errorValue
          ELSE IF IsPlainRecord(errorValue) /\ HasKey(errorValue.o, "message")
          THEN String(GetProp(errorValue.o, "message"))
          ELSE errorLoop(reg, errs, fieldLabel, i + 1)

\* DynamicFormComponent.getFieldError; reg is the registry as the call finds it.
getFieldError(reg, ctl) ==
  IF ctl.errors = JNull \/ ~ctl.touched THEN JStr("")
  ELSE errorLoop(ensureMessagesInitialized(reg), ctl.errors, ctl.label, 1)

\* SubformItemDialogComponent.getFieldError: the same lookup on a control of
\* the dialog's group.
SubformItemDialog_getFieldError(reg, ctl) ==
  IF ctl.errors = JNull \/ ~ctl.touched THEN JStr("")
  ELSE errorLoop(ensureMessagesInitialized(reg), ctl.errors, ctl.label, 1)

\* The registry after a call of getFieldError: the first lookup initializes it.
AfterLookup(reg, ctl) ==
  IF ctl.errors = JNull \/ ~ctl.touched \/ ctl.errors.o = << >> THEN reg
  ELSE ensureMessagesInitialized(reg)

InitView ==
  /\ errorMessageRegistry = EmptyErrorMessageRegistry
  /\ fieldControl = [errors |-> JNull, touched |-> FALSE, label |-> "Email"]
  /\ fieldError = JStr("")
  /\ formData = JObj(<< >>)
  /\ formErrors = JObj(<< >>)

(***************************************************************************)
(* State of the component and the steps of its host, effects and user.     *)
(***************************************************************************)
NoDialog ==
  [open |-> FALSE, mode |-> "none", f |-> 0, index |-> 0,
   formGroup |-> << >>, touched |-> FALSE]
Last(op, arg, flag, i, j) == [op |-> op, arg |-> arg, flag |-> flag, i |-> i, j |-> j]
NoRegistration == [component |-> NoEntry, controlType |-> NoEntry]
NoHistory ==
  [appliedValues |-> JUndefined, applies |-> 0,
   registered |-> [t \in Tags |-> NoRegistration], cleared |-> FALSE]

Init ==
  /\ registry = EmptyRegistry
  /\ formConfig \in Configs
  /\ formValues = JUndefined
  /\ dynamicForm = NullForm
  /\ formValuesApplied = FALSE
  /\ lastFormValuesHash = << >>
  /\ configEffectDirty = TRUE
  /\ valuesEffectDirty = TRUE
  /\ dialog = NoDialog
  /\ timers = << >>
  /\ last = Last("init", JUndefined, FALSE, 0, 0)
  /\ hist = NoHistory
  /\ InitView

\* no effect is scheduled: the change detection pass has finished
Quiescent == ~configEffectDirty /\ ~valuesEffectDirty

\* the host binds a (new reference of a) descriptor to the formConfig input
HostSetConfig(c) ==
  /\ Quiescent
  /\ formConfig' = c
  /\ configEffectDirty' = TRUE
  /\ valuesEffectDirty' = TRUE
  /\ dynamicForm' = Form(Cur)
  /\ last' = Last("hostSetConfig", JUndefined, FALSE, 0, 0)
  /\ hist' = [hist EXCEPT !.applies = 0]
  /\ UNCHANGED << registry, formValues, formValuesApplied, lastFormValuesHash,
                  dialog, timers >>
  /\ UNCHANGED viewVars

\* the host binds a (new reference of a) values object to the formValues
\* input, in the pass that binds the descriptor or in a later one
HostSetValues(v) ==
  /\ Quiescent \/ configEffectDirty
  /\ formValues' = v
  /\ valuesEffectDirty' = TRUE
  /\ dynamicForm' = IF dynamicForm.isNull THEN NullForm ELSE Form(Cur)
  /\ last' = Last("hostSetValues", v, FALSE, 0, 0)
  /\ hist' = [hist EXCEPT !.applies = 0]
  /\ UNCHANGED << registry, formConfig, formValuesApplied, lastFormValuesHash,
                  configEffectDirty, dialog, timers >>
  /\ UNCHANGED viewVars

\* the first effect: buildForm(config), formValuesApplied.set(false)
RunConfigEffect ==
  /\ configEffectDirty
  /\ dynamicForm' = buildForm(formConfig, registry)
  /\ registry' = ensureInitialized(registry)
  /\ formValuesApplied' = FALSE
  /\ configEffectDirty' = FALSE
  /\ valuesEffectDirty' = TRUE
  /\ last' = Last("configEffect", JUndefined, FALSE, 0, 0)
  /\ UNCHANGED << formConfig, formValues, lastFormValuesHash, dialog, timers, hist >>
  /\ UNCHANGED viewVars

\* the two conditions of the trigger
\* variant: the text of the values always counts as changed
valuesChanged_always(valuesHash, lastHash) == TRUE

valuesChanged(valuesHash, lastHash) == valuesHash # lastHash
\* variant: a rebuild is not remembered
formJustBuilt_never(applied) == FALSE

formJustBuilt(applied) == ~applied

\* the second effect: the synchronization trigger.  It runs after the first
\* (effects of one component flush in creation order) and is scheduled
\* again by its own writes to the signals it has read.
RunValuesEffect ==
  /\ valuesEffectDirty
  /\ ~configEffectDirty
  /\ IF formValues = JUndefined \/ dynamicForm.isNull \/ Len(formValues.o) = 0
     THEN /\ dynamicForm' = IF dynamicForm.isNull THEN NullForm ELSE Form(Cur)
          /\ valuesEffectDirty' = FALSE
          /\ last' = Last("valuesEffect", formValues, FALSE, 0, 0)
          /\ UNCHANGED << registry, formValuesApplied, lastFormValuesHash, hist >>
     ELSE LET valuesHash == JSONstringify(formValues)
              lastHash == lastFormValuesHash
          IN IF valuesChanged(valuesHash, lastHash) \/ formJustBuilt(formValuesApplied)
             THEN /\ dynamicForm' =
                       Form(setFormValues(Cur, formConfig, registry, formValues))
                  /\ registry' = ensureInitialized(registry)
                  /\ formValuesApplied' = TRUE
                  /\ lastFormValuesHash' = valuesHash
                  /\ valuesEffectDirty' = TRUE
                  /\ last' = Last("valuesEffect", formValues, TRUE,
                                  IF valuesChanged(valuesHash, lastHash) THEN 1 ELSE 0,
                                  IF formJustBuilt(formValuesApplied) THEN 1 ELSE 0)
                  /\ hist' = [hist EXCEPT
                                !.appliedValues = formValues,
                                !.applies = IF hist.applies < MaxApplies
                                            THEN hist.applies + 1 ELSE MaxApplies]
             ELSE /\ dynamicForm' = Form(Cur)
                  /\ valuesEffectDirty' = FALSE
                  /\ last' = Last("valuesEffect", formValues, FALSE, 0, 0)
                  /\ UNCHANGED << registry, formValuesApplied, lastFormValuesHash, hist >>
  /\ UNCHANGED << formConfig, formValues, configEffectDirty, dialog, timers >>
  /\ UNCHANGED viewVars

\* history: how many items that were in a list before the step (ref > 0)
\* hold other values after it
ChangedItems(pre, post) ==
  Cardinality({<< i, j >> \in (1..Len(post)) \X (1..(MaxLen + MaxPending + MaxCand)) :
                 /\ j <= Len(post[i].items)
                 /\ post[i].items[j].ref > 0
                 /\ post[i].items[j].ctl # pre[i].items[post[i].items[j].ref].ctl})

\* a direct call of the public method setFormValues(values)
\* history: the list fields for which the values object holds a value that
\* is not an array
MalformedFields(v) ==
  { j \in 1..Len(formConfig.fields) :
      /\ getControlType(registry, formConfig.fields[j].type) = "array"
      /\ GetProp(v.o, formConfig.fields[j].name) \notin {JUndefined, JNull}
      /\ ~IsArray(GetProp(v.o, formConfig.fields[j].name)) }

CallSetFormValues(v) ==
  /\ Quiescent
  /\ ~dynamicForm.isNull
  /\ LET post == setFormValues(Cur, formConfig, registry, v)
     IN /\ dynamicForm' = Form(post)
        /\ last' = Last("setFormValues", JUndefined, TRUE, ChangedItems(Cur, post),
                        Cardinality(MalformedFields(v)))
  /\ registry' = ensureInitialized(registry)
  /\ UNCHANGED << formConfig, formValues, formValuesApplied, lastFormValuesHash,
                  configEffectDirty, valuesEffectDirty, dialog, timers, hist >>
  /\ UNCHANGED viewVars

\* the user types into a single-value field and leaves it
UserInputs == {JStr("x"), JStr("y"), JBool(TRUE)}
UserInput(name, v) ==
  /\ Quiescent
  /\ ~dynamicForm.isNull
  /\ HasControl(Cur, name)
  /\ ControlAt(Cur, name).kind = "control"
  /\ dynamicForm' =
       Form([i \in 1..Len(Cur) |->
               IF Cur[i].name = name
               THEN [Cur[i] EXCEPT !.value = v, !.touched = TRUE] ELSE Cur[i]])
  /\ last' = Last("userInput", v, FALSE, 0, 0)
  /\ UNCHANGED << registry, formConfig, formValues, formValuesApplied,
                  lastFormValuesHash, configEffectDirty, valuesEffectDirty,
                  dialog, timers, hist >>
  /\ UNCHANGED viewVars

(***************************************************************************)
(* List operations of SubformInputComponent.  Indices are 0-based as in    *)
(* the source; sequences are 1-based.                                      *)
(***************************************************************************)
\* FormArray.removeAt: a negative index counts from the end, splice(index, 1)
removeAt(items, index) ==
  LET adjusted == IF index < 0 THEN (IF index + Len(items) < 0 THEN 0 ELSE index + Len(items))
                  ELSE index
  IN IF adjusted >= Len(items) THEN items
     ELSE SubSeq(items, 1, adjusted) \o SubSeq(items, adjusted + 2, Len(items))

\* FormArray.insert: splice(index, 0, control)
insert(items, index, control) ==
  LET adjusted == IF index < 0 THEN (IF index + Len(items) < 0 THEN 0 ELSE index + Len(items))
                  ELSE IF index > Len(items) THEN Len(items) ELSE index
  IN SubSeq(items, 1, adjusted) \o << control >> \o SubSeq(items, adjusted + 1, Len(items))

\* variant: the two positions exchange their nodes
dropItem_swap(items, config, previousIndex, currentIndex) ==
  [k \in 1..Len(items) |->
     IF k = previousIndex + 1 THEN items[currentIndex + 1]
     ELSE IF k = currentIndex + 1 THEN items[previousIndex + 1] ELSE items[k]]

dropItem(items, config, previousIndex, currentIndex) ==
  IF config.allowDragDrop = FALSE THEN items
  ELSE IF previousIndex # currentIndex
       THEN insert(removeAt(items, previousIndex), currentIndex, items[previousIndex + 1])
       ELSE items

\* the rendered SubformInputComponent instances: the descriptor's fields
\* whose registered component it is and whose control is a FormArray
IsSubformInstance(f) ==
  /\ ~dynamicForm.isNull
  /\ f \in 1..Len(formConfig.fields)
  /\ get(registry, formConfig.fields[f].type) = "SubformInputComponent"
  /\ HasControl(Cur, formConfig.fields[f].name)
  /\ ControlAt(Cur, formConfig.fields[f].name).kind = "array"

ItemsOf(f) == ControlAt(Cur, formConfig.fields[f].name).items

\* variant: a change of the list marks it as touched
WithItems_marksTouched(f, items) ==
  Form([i \in 1..Len(Cur) |->
          IF Cur[i].name = formConfig.fields[f].name
          THEN updateValueAndValidity([Cur[i] EXCEPT !.items = items, !.touched = TRUE])
          ELSE Cur[i]])

WithItems(f, items) ==
  Form([i \in 1..Len(Cur) |->
          IF Cur[i].name = formConfig.fields[f].name
          THEN updateValueAndValidity([Cur[i] EXCEPT !.items = items])
          ELSE Cur[i]])

\* the drop of a drag gesture: cdk reports two positions of the list
DropItem(f, previousIndex, currentIndex) ==
  /\ Quiescent
  /\ IsSubformInstance(f)
  /\ previousIndex \in 0..(Len(ItemsOf(f)) - 1)
  /\ currentIndex \in 0..(Len(ItemsOf(f)) - 1)
  /\ dynamicForm' =
       WithItems(f, dropItem(ItemsOf(f), formConfig.fields[f].config,
                             previousIndex, currentIndex))
  /\ last' = Last("dropItem", JUndefined, formConfig.fields[f].config.allowDragDrop,
                  previousIndex, currentIndex)
  /\ UNCHANGED << registry, formConfig, formValues, formValuesApplied,
                  lastFormValuesHash, configEffectDirty, valuesEffectDirty,
                  dialog, timers, hist >>
  /\ UNCHANGED viewVars

\* canAddItem() and canDeleteItem() of the instance for a list of this length
\* variant: a list at maxItems may still grow
canAddItem_upToMax(config, length) ==
  IF config.maxItems # Undef THEN length <= config.maxItems ELSE TRUE

canAddItem(config, length) ==
  IF config.maxItems # Undef THEN length < config.maxItems ELSE TRUE

\* variant: a list at minItems may still shrink
canDeleteItem_downToMin(config, length) ==
  IF config.minItems # Undef THEN length >= config.minItems ELSE length > 0

canDeleteItem(config, length) ==
  IF config.minItems # Undef THEN length > config.minItems ELSE length > 0

\* variant: the new control is put in and the old one stays
setControl_insertOnly(items, index, control) ==
  insert(items, index, control)

\* FormArray.setControl: splice(index, 1) and then splice(index, 0, control)
setControl(items, index, control) ==
  LET adjusted == IF index < 0 THEN (IF index + Len(items) < 0 THEN 0 ELSE index + Len(items))
                  ELSE index
  IN IF adjusted >= Len(items) THEN Append(items, control)
     ELSE SubSeq(items, 1, adjusted) \o << control >> \o SubSeq(items, adjusted + 2, Len(items))

\* SubformItemDialogComponent.createEmptyFormGroup: one empty control per sub-field
createEmptyFormGroup(subFields, reg) ==
  [j \in 1..Len(subFields) |->
     Prop(subFields[j].name,
          CASE getControlType(reg, subFields[j].type) = "group" -> JObj(<< >>)
            [] getControlType(reg, subFields[j].type) = "array" -> JArr(<< >>)
            [] OTHER -> JNull)]

\* SubformItemDialogComponent.cloneFormGroup: new controls with the values
cloneFormGroup(original) ==
  [j \in 1..Len(original.ctl) |-> Prop(original.ctl[j].key, original.ctl[j].val)]

\* Validators.required, attached by the field component of a required field
IsEmptyInputValue(v) ==
  v = JNull \/ v = JUndefined \/ v = JStr("") \/ v = JArr(<< >>)

\* formGroup.valid in the dialog, whose rendered fields have attached their rules
DialogValid(subFields, formGroup) ==
  \A j \in 1..Len(subFields) :
     subFields[j].required =>
       ~IsEmptyInputValue(GetProp(formGroup, subFields[j].name))

Timer(op, f, index, item) == [op |-> op, f |-> f, index |-> index, item |-> item]
NoItem == NewItem(<< >>, FALSE)

\* addItem(): the guard, then the dialog on an empty FormGroup.  The user
\* reaches the button when no dialog covers it and the 0 ms callbacks of
\* earlier gestures have run.
AddItem(f) ==
  /\ Quiescent
  /\ IsSubformInstance(f)
  /\ ~dialog.open
  /\ timers = << >>
  /\ formConfig.fields[f].config.maxItems = Undef => Len(ItemsOf(f)) < MaxLen
  /\ LET config == formConfig.fields[f].config
         accepted == canAddItem(config, Len(ItemsOf(f))) /\ config.hasFormConfig
     IN /\ dialog' = IF accepted
                      THEN [open |-> TRUE, mode |-> "add", f |-> f, index |-> 0,
                            formGroup |-> createEmptyFormGroup(config.formConfig, registry),
                            touched |-> FALSE]
                      ELSE dialog
        /\ last' = Last("addItem", JUndefined, accepted, f, 0)
  /\ dynamicForm' = Form(Cur)
  /\ UNCHANGED << registry, formConfig, formValues, formValuesApplied,
                  lastFormValuesHash, configEffectDirty, valuesEffectDirty,
                  timers, hist >>
  /\ UNCHANGED viewVars

\* editItem(index): the guard, then the dialog on a clone of the item
EditItem(f, index) ==
  /\ Quiescent
  /\ IsSubformInstance(f)
  /\ ~dialog.open
  /\ timers = << >>
  /\ LET config == formConfig.fields[f].config
         accepted == index >= 0 /\ index < Len(ItemsOf(f)) /\ config.hasFormConfig
     IN /\ dialog' = IF accepted
                      THEN [open |-> TRUE, mode |-> "edit", f |-> f, index |-> index,
                            formGroup |-> cloneFormGroup(ItemsOf(f)[index + 1]),
                            touched |-> FALSE]
                      ELSE dialog
        /\ last' = Last("editItem", JUndefined, accepted, f, index)
  /\ dynamicForm' = Form(Cur)
  /\ UNCHANGED << registry, formConfig, formValues, formValuesApplied,
                  lastFormValuesHash, configEffectDirty, valuesEffectDirty,
                  timers, hist >>
  /\ UNCHANGED viewVars

\* the user types into the sub-field s of the dialog
DialogInputs == {JStr("n")}
DialogInput(v) ==
  /\ dialog.open
  /\ HasKey(dialog.formGroup, "s")
  /\ dialog' = [dialog EXCEPT !.formGroup = SetProp(@, "s", v), !.touched = TRUE]
  /\ dynamicForm' = Form(Cur)
  /\ last' = Last("dialogInput", v, FALSE, 0, 0)
  /\ UNCHANGED << registry, formConfig, formValues, formValuesApplied,
                  lastFormValuesHash, configEffectDirty, valuesEffectDirty,
                  timers, hist >>
  /\ UNCHANGED viewVars

\* save(): close with the FormGroup when valid, else mark the fields touched.
\* The subscriber of afterClosed() runs through observeOn(asyncScheduler).
DialogSave ==
  /\ dialog.open
  /\ Len(timers) < MaxPending
  /\ LET subFields == formConfig.fields[dialog.f].config.formConfig
         valid == DialogValid(subFields, dialog.formGroup)
         result == [NewItem(dialog.formGroup, TRUE) EXCEPT !.touched = dialog.touched]
     IN /\ dialog' = IF valid THEN NoDialog ELSE [dialog EXCEPT !.touched = TRUE]
        /\ timers' = IF valid
                      THEN Append(timers,
                             Timer(IF dialog.mode = "add" THEN "push" ELSE "setControl",
                                   dialog.f, dialog.index, result))
                      ELSE timers
        /\ last' = Last("save", JUndefined, valid, dialog.f, dialog.index)
  /\ dynamicForm' = Form(Cur)
  /\ UNCHANGED << registry, formConfig, formValues, formValuesApplied,
                  lastFormValuesHash, configEffectDirty, valuesEffectDirty, hist >>
  /\ UNCHANGED viewVars

\* cancel(): close without a result; the subscriber then does nothing
DialogCancel ==
  /\ dialog.open
  /\ dialog' = NoDialog
  /\ dynamicForm' = Form(Cur)
  /\ last' = Last("cancel", JUndefined, FALSE, dialog.f, dialog.index)
  /\ UNCHANGED << registry, formConfig, formValues, formValuesApplied,
                  lastFormValuesHash, configEffectDirty, valuesEffectDirty,
                  timers, hist >>
  /\ UNCHANGED viewVars

\* deleteItem(index): the guards, the confirm() prompt unless confirmDelete
\* is false, then the removal queued on asyncScheduler
DeleteItem(f, index, answer) ==
  /\ Quiescent
  /\ IsSubformInstance(f)
  /\ Len(timers) < MaxPending
  /\ formConfig.fields[f].config.confirmDelete = FALSE => answer
  /\ LET config == formConfig.fields[f].config
         accepted == /\ canDeleteItem(config, Len(ItemsOf(f)))
                     /\ ~(index < 0 \/ index >= Len(ItemsOf(f)))
                     /\ (config.confirmDelete # FALSE => answer)
     IN /\ timers' = IF accepted
                      THEN Append(timers, Timer("removeAt", f, index, NoItem))
                      ELSE timers
        /\ last' = Last("deleteItem", JBool(answer), accepted, f, index)
  /\ dynamicForm' = Form(Cur)
  /\ UNCHANGED << registry, formConfig, formValues, formValuesApplied,
                  lastFormValuesHash, configEffectDirty, valuesEffectDirty,
                  dialog, hist >>
  /\ UNCHANGED viewVars

\* the oldest callback queued on asyncScheduler runs
RunTimer ==
  /\ timers # << >>
  /\ LET t == Head(timers)
         items == ItemsOf(t.f)
     IN /\ dynamicForm' =
             WithItems(t.f,
               CASE t.op = "push" -> Append(items, t.item)
                 [] t.op = "removeAt" -> removeAt(items, t.index)
                 [] OTHER -> setControl(items, t.index, t.item))
        /\ last' = Last("timer", JStr(t.op), TRUE, t.f, t.index)
  /\ timers' = Tail(timers)
  /\ UNCHANGED << registry, formConfig, formValues, formValuesApplied,
                  lastFormValuesHash, configEffectDirty, valuesEffectDirty,
                  dialog, hist >>
  /\ UNCHANGED viewVars

(***************************************************************************)
(* Validation, submit and reset.  The field components attach their rules   *)
(* to the controls when the form is rendered (ngOnInit); a control's errors *)
(* and validity are then a function of its value and of its descriptor.     *)
(***************************************************************************)
fieldOf(config, name) ==
  config.fields[CHOOSE j \in 1..Len(config.fields) : config.fields[j].name = name]

\* ngOnInit of the field components of a rendered form: the rules are
\* attached; the checkbox turns a null value into false.
ngOnInit(config, controls) ==
  [i \in 1..Len(controls) |->
     updateValueAndValidity(
       [controls[i] EXCEPT
          !.rules = TRUE,
          !.value = IF fieldOf(config, controls[i].name).type = "checkbox" /\ @ = JNull
                    THEN JBool(FALSE) ELSE @])]

\* Validators.email: an empty value passes, another one must be an address.
EmailAddresses == {"a@b.com"}
IsEmail(v) == IsEmptyInputValue(v) \/ (IsString(v) /\ v.s \in EmailAddresses)

\* control.value of a top-level control
ControlValue(node) == IF node.kind = "array" THEN ArrayValue(node.items) ELSE node.value

requiredFailure(field, node) ==
  IF field.required /\ IsEmptyInputValue(ControlValue(node))
  THEN << Prop("required", JBool(TRUE)) >> ELSE << >>

emailFailure(field, node) ==
  IF field.type = "email" /\ ~IsEmail(node.value)
  THEN << Prop("email", JBool(TRUE)) >> ELSE << >>

\* Validators.minLength of a text field whose config sets minLength: a value
\* that is empty or has no length passes, a shorter string fails.
hasValidLength(v) == IsString(v) \/ IsArray(v)
valueLength(v) == IF IsString(v) THEN Len(v.s) ELSE Len(v.a)

\* the variant that also fails the empty string
minLengthFailure_failsOnEmpty(field, node) ==
  IF /\ field.type = "text" /\ field.config.minLength # Undef
     /\ hasValidLength(node.value)
     /\ valueLength(node.value) < field.config.minLength
  THEN << Prop("minlength", JObj(<< Prop("requiredLength", JNum(field.config.minLength)),
                                    Prop("actualLength", JNum(valueLength(node.value))) >>)) >>
  ELSE << >>

minLengthFailure(field, node) ==
  IF /\ field.type = "text" /\ field.config.minLength # Undef
     /\ ~IsEmptyInputValue(node.value) /\ hasValidLength(node.value)
     /\ valueLength(node.value) < field.config.minLength
  THEN << Prop("minlength", JObj(<< Prop("requiredLength", JNum(field.config.minLength)),
                                    Prop("actualLength", JNum(valueLength(node.value))) >>)) >>
  ELSE << >>

minItemsFailure(field, node) ==
  IF /\ field.type = "subform" /\ field.config.minItems # Undef
     /\ node.validatedLength < field.config.minItems
  THEN << Prop("minItems", JObj(<< Prop("required", JNum(field.config.minItems)),
                                   Prop("actual", JNum(node.validatedLength)) >>)) >>
  ELSE << >>

maxItemsFailure(field, node) ==
  IF /\ field.type = "subform" /\ field.config.maxItems # Undef
     /\ node.validatedLength > field.config.maxItems
  THEN << Prop("maxItems", JObj(<< Prop("required", JNum(field.config.maxItems)),
                                   Prop("actual", JNum(node.validatedLength)) >>)) >>
  ELSE << >>

\* the rules without the list bounds
controlFailures_noItemBounds(field, node) ==
  requiredFailure(field, node) \o minLengthFailure(field, node)
  \o emailFailure(field, node)

\* the failures of the rules the field's component attaches, in their order
controlFailures(field, node) ==
  requiredFailure(field, node) \o minLengthFailure(field, node)
  \o emailFailure(field, node)
  \o minItemsFailure(field, node) \o maxItemsFailure(field, node)

\* control.errors: null, or the failures of the control's own rules
controlErrors(field, node) ==
  IF node.rules /\ controlFailures(field, node) # << >>
  THEN JObj(controlFailures(field, node)) ELSE JNull

\* an item FormGroup is valid when the rules its controls carry hold
itemValid(field, item) ==
  item.rules => DialogValid(field.config.formConfig, item.ctl)

\* control.valid: no own errors and no invalid descendant
controlValid(field, node) ==
  /\ controlErrors(field, node) = JNull
  /\ \A j \in 1..Len(node.items) : itemValid(field, node.items[j])

\* form.valid
formValid(config, controls) ==
  \A i \in 1..Len(controls) :
     controlValid(fieldOf(config, controls[i].name), controls[i])

\* form.value
formValue(controls) ==
  JObj([i \in 1..Len(controls) |-> Prop(controls[i].name, ControlValue(controls[i]))])

\* the errors object onSubmit collects: the top-level controls with errors
RECURSIVE collectErrors(_, _)
collectErrors(config, controls) ==
  IF controls = << >> THEN << >>
  ELSE LET errs == controlErrors(fieldOf(config, Head(controls).name), Head(controls))
       IN (IF errs # JNull THEN << Prop(Head(controls).name, errs) >> ELSE << >>)
          \o collectErrors(config, Tail(controls))

markAsTouched(controls) ==
  [i \in 1..Len(controls) |-> [controls[i] EXCEPT !.touched = TRUE]]

\* AbstractControl.reset() of the tree: every FormControl back to null, the
\* lists keep their item groups, nothing is touched.
reset(controls) ==
  [i \in 1..Len(controls) |->
     [controls[i] EXCEPT
        !.value = JNull,
        !.touched = FALSE,
        !.items = [j \in 1..Len(@) |->
                     [@[j] EXCEPT
                        !.ctl = [m \in 1..Len(@) |-> Prop(@[m].key, JNull)],
                        !.touched = FALSE]]]]

OnSubmit ==
  /\ Quiescent
  /\ ~dialog.open
  /\ IF ~dynamicForm.isNull /\ formValid(formConfig, Cur)
     THEN /\ formData' = formValue(Cur)
          /\ formErrors' = JObj(<< >>)
          /\ dynamicForm' = Form(Cur)
          /\ last' = Last("onSubmit", JUndefined, TRUE, 0, 0)
     ELSE /\ formErrors' = JObj(collectErrors(formConfig, Cur))
          /\ formData' = JObj(<< >>)
          /\ dynamicForm' = IF dynamicForm.isNull THEN dynamicForm
                            ELSE Form(markAsTouched(Cur))
          /\ last' = Last("onSubmit", JUndefined, FALSE, 0, 0)
  /\ UNCHANGED << registry, formConfig, formValues, formValuesApplied,
                  lastFormValuesHash, configEffectDirty, valuesEffectDirty,
                  dialog, timers, hist >>
  /\ UNCHANGED << errorMessageRegistry, fieldControl, fieldError >>

ResetForm ==
  /\ Quiescent
  /\ ~dialog.open
  /\ dynamicForm' = IF dynamicForm.isNull THEN dynamicForm ELSE Form(reset(Cur))
  /\ formData' = JObj(<< >>)
  /\ formErrors' = JObj(<< >>)
  /\ last' = Last("resetForm", JUndefined, TRUE, 0, 0)
  /\ UNCHANGED << registry, formConfig, formValues, formValuesApplied,
                  lastFormValuesHash, configEffectDirty, valuesEffectDirty,
                  dialog, timers, hist >>
  /\ UNCHANGED << errorMessageRegistry, fieldControl, fieldError >>

(***************************************************************************)
(* Steps of the error display: the host registers or clears messages, a    *)
(* control is validated and touched, an adapter asks for the message.       *)
(***************************************************************************)
MaxFailures == 2   \* most failures a control carries at once
formVars == << registry, formConfig, formValues, dynamicForm, formValuesApplied,
               lastFormValuesHash, configEffectDirty, valuesEffectDirty, dialog,
               timers, hist >>

FailureDetails == {JBool(TRUE), JStr("my text"), JObj(<< Prop("message", JStr("m")) >>)}

RECURSIVE FailureLists(_)
FailureLists(n) ==
  IF n = 0 THEN {<< >>}
  ELSE LET shorter == FailureLists(n - 1)
       IN shorter \cup
          { Append(l, Prop(key, d)) :
              l \in {x \in shorter : Len(x) = n - 1},
              key \in ErrorKeys, d \in FailureDetails }

DistinctKeys(l) == \A i, j \in 1..Len(l) : l[i].key = l[j].key => i = j

\* control.errors: null, or the failures under distinct keys.
ErrorObjects ==
  {JNull} \cup
  { JObj(l) : l \in {x \in FailureLists(MaxFailures) : x # << >> /\ DistinctKeys(x)} }

HostMessageKeys == {"custom"}

RegisterMessage(errorKey) ==
  /\ errorMessageRegistry' = registerMessage(errorMessageRegistry, errorKey, "hostMessage")
  /\ last' = Last("registerMessage", JStr(errorKey), TRUE, 0, 0)
  /\ UNCHANGED << fieldControl, fieldError, formData, formErrors >>
  /\ UNCHANGED formVars

ClearMessages ==
  /\ errorMessageRegistry' = clearMessages(errorMessageRegistry)
  /\ last' = Last("clearMessages", JUndefined, TRUE, 0, 0)
  /\ UNCHANGED << fieldControl, fieldError, formData, formErrors >>
  /\ UNCHANGED formVars

Validate(errs, touched) ==
  /\ fieldControl' = [fieldControl EXCEPT !.errors = errs, !.touched = touched]
  /\ last' = Last("validate", JUndefined, touched, 0, 0)
  /\ UNCHANGED << errorMessageRegistry, fieldError, formData, formErrors >>
  /\ UNCHANGED formVars

GetFieldError ==
  /\ fieldError' = getFieldError(errorMessageRegistry, fieldControl)
  /\ errorMessageRegistry' = AfterLookup(errorMessageRegistry, fieldControl)
  /\ last' = Last("getFieldError", JUndefined, fieldControl.touched, 0, 0)
  /\ UNCHANGED << fieldControl, formData, formErrors >>
  /\ UNCHANGED formVars

DialogGetFieldError ==
  /\ fieldError' = SubformItemDialog_getFieldError(errorMessageRegistry, fieldControl)
  /\ errorMessageRegistry' = AfterLookup(errorMessageRegistry, fieldControl)
  /\ last' = Last("dialogGetFieldError", JUndefined, fieldControl.touched, 0, 0)
  /\ UNCHANGED << fieldControl, formData, formErrors >>
  /\ UNCHANGED formVars

(***************************************************************************)
(* Steps on the field type registry: a host registers a component for a    *)
(* tag, and the component and the control type of a tag are looked up.      *)
(***************************************************************************)
HostTags == {"text", "checkbox", "custom"}
HostComponents == {"HostComponent", "OtherHostComponent"}
ControlTypes == {"control", "group", "array"}

\* what a lookup found, null for a missing entry
Found(fieldType, entry) ==
  JObj(<< Prop("fieldType", JStr(fieldType)),
          Prop("found", IF entry = NoEntry THEN JNull ELSE JStr(entry)) >>)

HostRegister(fieldType, component, controlType) ==
  /\ registry' = register(registry, [fieldType |-> fieldType, component |-> component,
                                     controlType |-> controlType,
                                     initialValue |-> JUndefined])
  /\ hist' = [hist EXCEPT !.registered[fieldType] =
                [component |-> component, controlType |-> controlType]]
  /\ last' = Last("register", JStr(fieldType), TRUE, 0, 0)
  /\ UNCHANGED << formConfig, formValues, dynamicForm, formValuesApplied,
                  lastFormValuesHash, configEffectDirty, valuesEffectDirty,
                  dialog, timers >>
  /\ UNCHANGED viewVars

Get(fieldType) ==
  /\ registry' = ensureInitialized(registry)
  /\ last' = Last("get", Found(fieldType, get(registry, fieldType)), TRUE, 0, 0)
  /\ UNCHANGED << formConfig, formValues, dynamicForm, formValuesApplied,
                  lastFormValuesHash, configEffectDirty, valuesEffectDirty,
                  dialog, timers, hist >>
  /\ UNCHANGED viewVars

GetControlType(fieldType) ==
  /\ registry' = ensureInitialized(registry)
  /\ last' = Last("getControlType",
                  Found(fieldType, getControlType(registry, fieldType)), TRUE, 0, 0)
  /\ UNCHANGED << formConfig, formValues, dynamicForm, formValuesApplied,
                  lastFormValuesHash, configEffectDirty, valuesEffectDirty,
                  dialog, timers, hist >>
  /\ UNCHANGED viewVars

(***************************************************************************)
(* Specifications.                                                         *)
(***************************************************************************)
FieldIndexes == 1..2
Positions == 0..MaxLen

\* Spec: the component driven through its inputs and effects.
Next ==
  \/ \E c \in Configs : HostSetConfig(c)
  \/ \E v \in HostValueObjects : HostSetValues(v)
  \/ RunConfigEffect
  \/ RunValuesEffect
  \/ \E n \in {"a", "c"}, v \in UserInputs : UserInput(n, v)
  \/ \E f \in FieldIndexes, i, j \in Positions : DropItem(f, i, j)

Spec == Init /\ [][Next]_vars

\* SpecFair: a scheduled effect runs (the framework flushes its effects at
\* the end of each change detection pass).
SpecFair == Spec /\ WF_vars(RunConfigEffect) /\ WF_vars(RunValuesEffect)

\* SpecApply: setFormValues called directly with every values object.
NextApply ==
  \/ \E c \in Configs : HostSetConfig(c)
  \/ RunConfigEffect
  \/ RunValuesEffect
  \/ \E v \in ValueObjects : CallSetFormValues(v)
  \/ \E n \in {"a", "c"}, v \in UserInputs : UserInput(n, v)
  \/ \E f \in FieldIndexes, i, j \in Positions : DropItem(f, i, j)

SpecApply == Init /\ [][NextApply]_vars

\* SpecList: the list operations of a rendered SubformInputComponent on a
\* built form, with applies of external values in between.
ListConfigs == {ConfigA, ConfigE}
SeedArrays == {<< ItemRecord("p") >>, << ItemRecord("p"), ItemRecord("p") >>}
SeedValueObjects == {JObj(<< Prop("items", JArr(c)) >>) : c \in SeedArrays}

InitList ==
  /\ registry = ensureInitialized(EmptyRegistry)
  /\ formConfig \in ListConfigs
  /\ formValues = JUndefined
  /\ dynamicForm = buildForm(formConfig, registry)
  /\ formValuesApplied = FALSE
  /\ lastFormValuesHash = << >>
  /\ configEffectDirty = FALSE
  /\ valuesEffectDirty = FALSE
  /\ dialog = NoDialog
  /\ timers = << >>
  /\ last = Last("init", JUndefined, FALSE, 0, 0)
  /\ hist = NoHistory
  /\ InitView

NextList ==
  \/ \E v \in SeedValueObjects : CallSetFormValues(v)
  \/ \E f \in FieldIndexes : AddItem(f)
  \/ \E v \in DialogInputs : DialogInput(v)
  \/ DialogSave
  \/ DialogCancel
  \/ \E f \in FieldIndexes, i \in Positions \cup {-1}, answer \in BOOLEAN :
        DeleteItem(f, i, answer)
  \/ RunTimer
  \/ \E f \in FieldIndexes, i, j \in Positions : DropItem(f, i, j)

SpecList == InitList /\ [][NextList]_vars

\* SpecEdit: the edit dialog on a list that is moved, shortened or applied
\* to while the dialog is open.
NextEdit ==
  \/ \E v \in SeedValueObjects : CallSetFormValues(v)
  \/ \E f \in FieldIndexes, i \in Positions : EditItem(f, i)
  \/ \E v \in DialogInputs : DialogInput(v)
  \/ DialogSave
  \/ DialogCancel
  \/ \E f \in FieldIndexes, i \in Positions, answer \in BOOLEAN :
        DeleteItem(f, i, answer)
  \/ RunTimer
  \/ \E f \in FieldIndexes, i, j \in Positions : DropItem(f, i, j)

SpecEdit == InitList /\ [][NextEdit]_vars

\* The error display alone, on a built form.
NextErrors ==
  \/ \E k \in HostMessageKeys : RegisterMessage(k)
  \/ ClearMessages
  \/ \E errs \in ErrorObjects, touched \in BOOLEAN : Validate(errs, touched)
  \/ GetFieldError
  \/ DialogGetFieldError
InitErrors == InitList /\ formConfig = ConfigA
SpecErrors == InitErrors /\ [][NextErrors]_vars


\* Submit and reset on a rendered form whose values come from the host, the
\* user and the item dialog.
SubmitConfigs == {ConfigF, ConfigG, ConfigM}
TextInputs == {JStr(""), JStr("b"), JStr("ab"), JStr("abc")}
SubmitValueObjects ==
  { JObj(<< Prop("email", JStr("a@b.com")) >>),
    JObj(<< Prop("items", JArr(<< ItemRecord("") >>)) >>),
    JObj(<< Prop("items", JArr(<< ItemRecord("p") >>)) >>),
    JObj(<< Prop("a", JStr("x")) >>) }
InitSubmit ==
  /\ registry = ensureInitialized(EmptyRegistry)
  /\ formConfig \in SubmitConfigs
  /\ formValues = JUndefined
  /\ dynamicForm = Form(ngOnInit(formConfig, buildForm(formConfig, registry).controls))
  /\ formValuesApplied = FALSE
  /\ lastFormValuesHash = << >>
  /\ configEffectDirty = FALSE
  /\ valuesEffectDirty = FALSE
  /\ dialog = NoDialog
  /\ timers = << >>
  /\ last = Last("init", JUndefined, FALSE, 0, 0)
  /\ hist = NoHistory
  /\ InitView
NextSubmit ==
  \/ \E v \in SubmitValueObjects : CallSetFormValues(v)
  \/ \E name \in {"email", "c"}, v \in {JStr("x"), JBool(TRUE)} : UserInput(name, v)
  \/ \E v \in TextInputs : UserInput("t", v)
  \/ \E f \in FieldIndexes : AddItem(f)
  \/ \E v \in DialogInputs : DialogInput(v)
  \/ DialogSave
  \/ RunTimer
  \/ OnSubmit
  \/ ResetForm
SpecSubmit == InitSubmit /\ [][NextSubmit]_vars

\* The registry alone, before and after its first lookup.
\* SpecRules: the list steps, the edit dialog and direct applies on a rendered
\* form whose list component has attached its rules.
RulesConfigs == {ConfigN}
RulesArrays ==
  {<< ItemRecord("p") >>, << ItemRecord("p"), ItemRecord("p"), ItemRecord("p") >>}
RulesValueObjects == {JObj(<< Prop("items", JArr(c)) >>) : c \in RulesArrays}
RulesPositions == 0..1
InitRules ==
  /\ registry = ensureInitialized(EmptyRegistry)
  /\ formConfig \in RulesConfigs
  /\ formValues = JUndefined
  /\ dynamicForm = Form(ngOnInit(formConfig, buildForm(formConfig, registry).controls))
  /\ formValuesApplied = FALSE
  /\ lastFormValuesHash = << >>
  /\ configEffectDirty = FALSE
  /\ valuesEffectDirty = FALSE
  /\ dialog = NoDialog
  /\ timers = << >>
  /\ last = Last("init", JUndefined, FALSE, 0, 0)
  /\ hist = NoHistory
  /\ InitView
NextRules ==
  \/ \E v \in RulesValueObjects : CallSetFormValues(v)
  \/ \E f \in FieldIndexes : AddItem(f)
  \/ \E f \in FieldIndexes : EditItem(f, 0)
  \/ \E v \in DialogInputs : DialogInput(v)
  \/ DialogSave
  \/ \E f \in FieldIndexes, i \in RulesPositions : DeleteItem(f, i, TRUE)
  \/ RunTimer
  \/ \E f \in FieldIndexes : DropItem(f, 0, 1)
SpecRules == InitRules /\ [][NextRules]_vars

\* SpecTouch: the list steps next to user input and submits on a rendered form
TouchValueObjects ==
  {JObj(<< Prop("items", JArr(<< ItemRecord("p"), ItemRecord("q") >>)) >>)}
InitTouch == InitSubmit /\ formConfig = ConfigF
NextTouch ==
  \/ \E v \in TouchValueObjects : CallSetFormValues(v)
  \/ UserInput("email", JStr("x"))
  \/ \E f \in FieldIndexes : AddItem(f)
  \/ \E v \in DialogInputs : DialogInput(v)
  \/ DialogSave
  \/ \E f \in FieldIndexes : DeleteItem(f, 0, TRUE)
  \/ \E f \in FieldIndexes : DropItem(f, 0, 1)
  \/ RunTimer
  \/ OnSubmit
SpecTouch == InitTouch /\ [][NextTouch]_vars

\* SpecBounds: add and delete requests and their deferred steps on a rendered
\* list that starts with two items, within its bounds 1..3
BoundsValues == JObj(<< Prop("items", JArr(<< ItemRecord("p"), ItemRecord("q") >>)) >>)
InitBounds ==
  /\ registry = ensureInitialized(EmptyRegistry)
  /\ formConfig = ConfigA
  /\ formValues = JUndefined
  /\ dynamicForm =
       Form(Renumber(setFormValues(
              ngOnInit(formConfig, buildForm(formConfig, registry).controls),
              formConfig, registry, BoundsValues)))
  /\ formValuesApplied = FALSE
  /\ lastFormValuesHash = << >>
  /\ configEffectDirty = FALSE
  /\ valuesEffectDirty = FALSE
  /\ dialog = NoDialog
  /\ timers = << >>
  /\ last = Last("init", JUndefined, FALSE, 0, 0)
  /\ hist = NoHistory
  /\ InitView
NextBounds ==
  \/ \E f \in FieldIndexes : AddItem(f)
  \/ \E v \in DialogInputs : DialogInput(v)
  \/ DialogSave
  \/ DialogCancel
  \/ \E f \in FieldIndexes, i \in Positions : DeleteItem(f, i, TRUE)
  \/ RunTimer
SpecBounds == InitBounds /\ [][NextBounds]_vars

\* clear() of the field type registry
Clear ==
  /\ registry' = clear(registry)
  /\ hist' = [hist EXCEPT !.registered = [t \in Tags |-> NoRegistration],
                          !.cleared = TRUE]
  /\ last' = Last("clear", JUndefined, TRUE, 0, 0)
  /\ UNCHANGED << formConfig, formValues, dynamicForm, formValuesApplied,
                  lastFormValuesHash, configEffectDirty, valuesEffectDirty,
                  dialog, timers >>
  /\ UNCHANGED viewVars

Has(fieldType) ==
  /\ registry' = ensureInitialized(registry)
  /\ last' = Last("has", JObj(<< Prop("fieldType", JStr(fieldType)),
                                 Prop("result", JBool(has(registry, fieldType))) >>),
                  TRUE, 0, 0)
  /\ UNCHANGED << formConfig, formValues, dynamicForm, formValuesApplied,
                  lastFormValuesHash, configEffectDirty, valuesEffectDirty,
                  dialog, timers, hist >>
  /\ UNCHANGED viewVars

\* has(errorKey) of the error message registry
HasErrorMessage(errorKey) ==
  /\ errorMessageRegistry' = ensureMessagesInitialized(errorMessageRegistry)
  /\ last' = Last("hasErrorMessage",
                  JObj(<< Prop("errorKey", JStr(errorKey)),
                          Prop("result", JBool(hasErrorMessage(errorMessageRegistry, errorKey))) >>),
                  TRUE, 0, 0)
  /\ UNCHANGED << fieldControl, fieldError, formData, formErrors >>
  /\ UNCHANGED formVars

InitRegistry == Init /\ formConfig = ConfigA
NextRegistry ==
  \/ \E t \in HostTags, c \in HostComponents, k \in ControlTypes : HostRegister(t, c, k)
  \/ \E t \in Tags : Get(t)
  \/ \E t \in Tags : GetControlType(t)
SpecRegistry == InitRegistry /\ [][NextRegistry]_vars

\* SpecClear: registrations, lookups and clear() of the two registries
ClearTags == {"text", "custom"}
NextClear ==
  \/ \E t \in ClearTags : HostRegister(t, "HostComponent", "control")
  \/ \E t \in ClearTags : Get(t)
  \/ \E t \in ClearTags : Has(t)
  \/ Clear
  \/ \E k \in ErrorKeys : HasErrorMessage(k)
  \/ ClearMessages
SpecClear == InitRegistry /\ [][NextClear]_vars

(***************************************************************************)
(* Properties of the builder and of the value synchronizer (SpecApply).    *)
(***************************************************************************)
\* a call of setFormValues can be made: the tree is built, no effect pending
Ready == Quiescent /\ ~dynamicForm.isNull

\* the tree a call setFormValues(v) made now would leave
Apply(v) == setFormValues(Cur, formConfig, registry, v)

IsRegisteredField(f) == get(registry, f.type) # NoEntry
DeclaredKind(f) ==
  IF getControlType(registry, f.type) = NoEntry THEN "control"
  ELSE getControlType(registry, f.type)

\* C7: right after a build of a descriptor with distinct field names, the
\* tree has exactly one node per field whose type is registered, in
\* declaration order, of the kind the registry gives for the type, a list
\* being empty; fields of unregistered types have no node.
C7_BuildOneNodePerRegisteredField ==
  (last.op = "configEffect" /\ UniqueNames(formConfig)) =>
    LET regd == SelectSeq(formConfig.fields, IsRegisteredField)
        controls == dynamicForm.controls
    IN /\ ~dynamicForm.isNull
       /\ Len(controls) = Len(regd)
       /\ \A i \in 1..Len(regd) :
             /\ controls[i].name = regd[i].name
             /\ controls[i].kind = DeclaredKind(regd[i])
             /\ controls[i].items = << >>

\* a build that skipped unregistered fields before and between registered ones
C7_Witness ==
  /\ last.op = "configEffect"
  /\ formConfig = ConfigB
  /\ Len(dynamicForm.controls) = 2
  /\ dynamicForm.controls[2].name = "a"

\* C6: a call of setFormValues leaves the node of every field that is
\* absent from the values object, or null in it, exactly as it was: value,
\* item nodes and their order, touched flag.
C6_AbsentOrNullFieldUntouched ==
  Ready =>
    \A v \in ValueObjects :
      LET post == Apply(v)
      IN /\ Len(post) = Len(Cur)
         /\ \A i \in 1..Len(Cur) :
               GetProp(v.o, Cur[i].name) \in {JUndefined, JNull} => post[i] = Cur[i]

\* a call that changed a list item and left the user's value of field a
C6_Witness ==
  /\ last.op = "setFormValues"
  /\ last.i >= 1
  /\ HasControl(dynamicForm.controls, "a")
  /\ ControlAt(dynamicForm.controls, "a").value = JStr("y")
  /\ ControlAt(dynamicForm.controls, "a").touched

\* the precondition of same-length reconciliation for node i and values v
SameLengthRecords(i, v) ==
  LET cand == GetProp(v.o, Cur[i].name)
  IN /\ Cur[i].kind = "array"
     /\ IsArray(cand)
     /\ Len(cand.a) = Len(Cur[i].items)
     /\ Len(cand.a) >= 1
     /\ \A k \in 1..Len(cand.a) : IsPlainRecord(cand.a[k])

\* C1 (as amended): for a live list of N >= 1 items and a candidate array
\* of N records, every position holds the same item node after the call,
\* and each sub-field of each item has the value its candidate record gives
\* for it, or its previous value when the record has no such key.
C1_SameLengthPatchesInPlace ==
  Ready =>
    \A v \in ValueObjects : \A i \in 1..Len(Cur) :
      SameLengthRecords(i, v) =>
        LET cand == GetProp(v.o, Cur[i].name).a
            pre == Cur[i].items
            post == Apply(v)[i].items
        IN /\ Len(post) = Len(pre)
           /\ \A k \in 1..Len(post) :
                 /\ post[k].ref = k
                 /\ post[k].touched = pre[k].touched
                 /\ post[k].rules = pre[k].rules
                 /\ Len(post[k].ctl) = Len(pre[k].ctl)
                 /\ \A j \in 1..Len(post[k].ctl) :
                       /\ post[k].ctl[j].key = pre[k].ctl[j].key
                       /\ post[k].ctl[j].val =
                            IF HasKey(cand[k].o, pre[k].ctl[j].key)
                            THEN GetProp(cand[k].o, pre[k].ctl[j].key)
                            ELSE pre[k].ctl[j].val

\* a call that kept both nodes of a two-item list and changed a value
C1_Witness ==
  /\ last.op = "setFormValues"
  /\ last.i >= 1
  /\ \E i \in 1..Len(dynamicForm.controls) :
        LET items == dynamicForm.controls[i].items
        IN Len(items) = 2 /\ items[1].ref = 1 /\ items[2].ref = 2

\* C1 (as stated): ... and each item's field values equal the candidate
\* record at the same position.
C1_SameLengthEqualsCandidate ==
  Ready =>
    \A v \in ValueObjects : \A i \in 1..Len(Cur) :
      SameLengthRecords(i, v) =>
        LET cand == GetProp(v.o, Cur[i].name).a
            post == Apply(v)[i].items
        IN /\ Len(post) = Len(cand)
           /\ \A k \in 1..Len(post) :
                 post[k].ref = k /\ StructEq(JObj(post[k].ctl), cand[k])

\* the item a candidate element stands for: a record seeds the sub-fields it
\* names, anything else is an empty record
SeededItem(field, elem) ==
  LET rec == IF IsPlainRecord(elem) THEN elem.o ELSE << >>
  IN [j \in 1..Len(field.config.formConfig) |->
        LET name == field.config.formConfig[j].name
        IN Prop(name, IF HasKey(rec, name) THEN GetProp(rec, name) ELSE JNull)]

FieldNamed(name) ==
  formConfig.fields[CHOOSE j \in 1..Len(formConfig.fields) :
                      formConfig.fields[j].name = name]

\* C2: when the live list is empty or its length differs from the
\* candidate array's length M, the list holds after the call exactly M
\* freshly built nodes in candidate order, a non-record element giving an
\* item of an empty record.
C2_DifferentLengthRebuildsAll ==
  Ready =>
    \A v \in ValueObjects : \A i \in 1..Len(Cur) :
      LET cand == GetProp(v.o, Cur[i].name)
      IN (/\ Cur[i].kind = "array"
          /\ IsArray(cand)
          /\ (Len(Cur[i].items) = 0 \/ Len(Cur[i].items) # Len(cand.a))) =>
           LET post == Apply(v)[i].items
           IN /\ Len(post) = Len(cand.a)
              /\ \A k \in 1..Len(post) :
                    /\ post[k].ref = 0
                    /\ post[k].ctl = SeededItem(FieldNamed(Cur[i].name), cand.a[k])

\* C5: a second call of setFormValues with the same values object leaves
\* the tree of the first call: the same nodes at the same positions, the
\* same values and flags.
C5_SecondApplyChangesNothing ==
  Ready =>
    \A v \in ValueObjects :
      LET first == Renumber(Apply(v))
      IN setFormValues(first, formConfig, registry, v) = first

(***************************************************************************)
(* Properties of the synchronization trigger (Spec, SpecFair).             *)
(***************************************************************************)
\* the trigger evaluates its condition on a built tree and a non-empty
\* values object in this step
TriggerEvaluates ==
  /\ valuesEffectDirty /\ ~configEffectDirty
  /\ last'.op = "valuesEffect"
  /\ ~dynamicForm.isNull
  /\ formValues # JUndefined
  /\ Len(formValues.o) > 0

\* C3: with a built tree and a non-empty values object the trigger applies
\* the values if and only if no values were applied since the last build
\* or the values differ structurally from those of the last apply; when it
\* does not apply, the tree with the user's edits stays as it is.
C3_AppliesIffBuiltOrStructurallyChanged ==
  [][TriggerEvaluates =>
       /\ last'.flag <=>
            (~formValuesApplied \/ ~StructEq(formValues, hist.appliedValues))
       /\ ~last'.flag => dynamicForm'.controls = Cur]_vars

\* C4: the trigger applies the values at most once for each change the
\* host makes to the descriptor or to the values object, and every
\* scheduled effect run leads to a state where no effect is scheduled, so
\* no further apply happens until the host changes an input again.
C4_AtMostOneApplyThenQuiet ==
  /\ [](hist.applies <= 1)
  /\ (configEffectDirty \/ valuesEffectDirty) ~> Quiescent

\* the trigger ran again after its apply on a list and did nothing
C4_Witness ==
  /\ Quiescent
  /\ hist.applies = 1
  /\ last.op = "valuesEffect" /\ ~last.flag
  /\ HasControl(dynamicForm.controls, "items")
  /\ Len(ControlAt(dynamicForm.controls, "items").items) = 2

(***************************************************************************)
(* Properties of the list operations (SpecList).                           *)
(***************************************************************************)
\* the items of the list of field f after the step
ItemsAfter(f) == ControlAt(dynamicForm'.controls, formConfig.fields[f].name).items

\* every node of the form other than the list of field f is as before
OthersUnchanged(f) ==
  /\ Len(dynamicForm'.controls) = Len(Cur)
  /\ \A i \in 1..Len(Cur) :
        Cur[i].name # formConfig.fields[f].name => dynamicForm'.controls[i] = Cur[i]

\* C8: an addItem on a list that holds maxItems items opens no dialog,
\* queues nothing and leaves the list as it is; the append of a confirmed
\* add puts exactly one new node at the end of the list and leaves the
\* nodes before it, and their order, unchanged.
C8_AddRefusedAtMaxElseAppendsOne ==
  [][\A f \in FieldIndexes :
       IsSubformInstance(f) =>
         LET config == formConfig.fields[f].config
             pre == ItemsOf(f)
             post == ItemsAfter(f)
         IN /\ (/\ last'.op = "addItem"
                 /\ config.maxItems # Undef
                 /\ Len(pre) >= config.maxItems) =>
                  /\ ~dialog'.open
                  /\ timers' = timers
                  /\ dynamicForm'.controls = Cur
            /\ (last'.op = "timer" /\ last'.arg = JStr("push")) =>
                  /\ Len(post) = Len(pre) + 1
                  /\ \A k \in 1..Len(pre) : post[k] = pre[k]
                  /\ post[Len(post)].ref = 0
                  /\ OthersUnchanged(f)]_vars

\* a further addItem was refused on a list of maxItems = 3 items whose
\* third item a confirmed add had appended
C8_Witness ==
  /\ last.op = "addItem" /\ ~last.flag
  /\ formConfig = ConfigA
  /\ ~dialog.open
  /\ Len(ControlAt(dynamicForm.controls, "items").items) = 3
  /\ ControlAt(dynamicForm.controls, "items").items[3].ctl = << Prop("s", JStr("n")) >>

\* C9: a deleteItem whose removal would take the list below minItems, or
\* whose index is outside 0..length-1, queues nothing and leaves the list
\* as it is; any other deleteItem the user confirms queues the removal at
\* that index; and the queued removal, when it runs, takes out exactly the
\* node at its index and leaves every other node and their order.
C9_DeleteRejectedElseRemovesThatNode ==
  [][\A f \in FieldIndexes :
       IsSubformInstance(f) =>
         LET config == formConfig.fields[f].config
             pre == ItemsOf(f)
             post == ItemsAfter(f)
             index == last'.j
         IN /\ last'.op = "deleteItem" =>
                  IF \/ (config.minItems # Undef /\ Len(pre) - 1 < config.minItems)
                     \/ index < 0 \/ index > Len(pre) - 1
                  THEN timers' = timers /\ dynamicForm'.controls = Cur
                  ELSE (config.confirmDelete = FALSE \/ last'.arg = JBool(TRUE)) =>
                         /\ timers' = Append(timers, Timer("removeAt", f, index, NoItem))
                         /\ dynamicForm'.controls = Cur
            /\ (/\ last'.op = "timer" /\ last'.arg = JStr("removeAt")
                 /\ index >= 0 /\ index < Len(pre)) =>
                  /\ Len(post) = Len(pre) - 1
                  /\ \A k \in 1..Len(post) :
                        post[k] = pre[IF k <= index THEN k ELSE k + 1]
                  /\ OthersUnchanged(f)]_vars

\* the queued removal of the middle node of three has run
C9_Witness ==
  /\ last.op = "timer" /\ last.arg = JStr("removeAt") /\ last.j = 1
  /\ \E i \in 1..Len(dynamicForm.controls) :
        LET items == dynamicForm.controls[i].items
        IN Len(items) = 2 /\ items[1].ref = 1 /\ items[2].ref = 3

\* the position the node at position k after a move from `from` to `to`
\* had before it (positions from 1)
MovedFrom(k, from, to) ==
  IF k = to THEN from
  ELSE LET m == IF k < to THEN k ELSE k - 1
       IN IF m < from THEN m ELSE m + 1

\* C10: a drop with both positions in range on a list that allows
\* reordering takes the node out of the first position and puts the same
\* node in at the second: the list holds the same nodes, the others in
\* their order (from 0 to 2 on three items gives item1, item2, item0), and
\* is exactly as before when the positions are equal.
C10_MoveReinsertsSameNode ==
  [][\A f \in FieldIndexes :
       (/\ IsSubformInstance(f)
        /\ last'.op = "dropItem"
        /\ formConfig.fields[f].config.allowDragDrop # FALSE) =>
         LET pre == ItemsOf(f)
             post == ItemsAfter(f)
             from == last'.i + 1
             to == last'.j + 1
         IN /\ Len(post) = Len(pre)
            /\ \A k \in 1..Len(post) : post[k] = pre[MovedFrom(k, from, to)]
            /\ from = to => post = pre
            /\ (Len(pre) = 3 /\ from = 1 /\ to = 3) =>
                  << post[1], post[2], post[3] >> = << pre[2], pre[3], pre[1] >>
            /\ OthersUnchanged(f)]_vars

\* the first of three items was dropped on the last position
C10_Witness ==
  /\ last.op = "dropItem" /\ last.flag /\ last.i = 0 /\ last.j = 2
  /\ \E i \in 1..Len(dynamicForm.controls) :
        LET items == dynamicForm.controls[i].items
        IN /\ Len(items) = 3
           /\ << items[1].ref, items[2].ref, items[3].ref >> = << 2, 3, 1 >>

(***************************************************************************)
(* Properties of the item dialog (SpecEdit).                               *)
(***************************************************************************)
\* C11: the edit dialog works on a clone.  Opening it copies the item's
\* values and leaves the tree as it is; typing in it, a refused save, the
\* save itself and cancel leave the live tree as it is, and cancel queues
\* nothing; the commit of a confirmed edit on an item still in the list
\* puts the clone in the place of the node at its index in one step: the
\* list keeps its length and every other node.
C11_EditWorksOnClone ==
  [][/\ (last'.op = "editItem" /\ last'.flag) =>
          /\ dynamicForm'.controls = Cur
          /\ dialog'.open /\ dialog'.mode = "edit"
          /\ dialog'.formGroup = ItemsOf(last'.i)[last'.j + 1].ctl
     /\ (dialog.open /\ dialog.mode = "edit"
         /\ last'.op \in {"dialogInput", "save", "cancel"}) =>
          dynamicForm'.controls = Cur
     /\ (dialog.open /\ dialog.mode = "edit" /\ last'.op = "cancel") =>
          timers' = timers /\ ~dialog'.open
     /\ (/\ last'.op = "timer" /\ last'.arg = JStr("setControl")
         /\ last'.j < Len(ItemsOf(last'.i))) =>
          LET pre == ItemsOf(last'.i)
              post == ItemsAfter(last'.i)
          IN /\ Len(post) = Len(pre)
             /\ post[last'.j + 1] = Head(timers).item
             /\ post[last'.j + 1].ref = 0
             /\ \A k \in 1..Len(pre) : k # last'.j + 1 => post[k] = pre[k]
             /\ OthersUnchanged(last'.i)]_vars

\* the edited clone has taken the second place of a list of two
C11_Witness ==
  /\ last.op = "timer" /\ last.arg = JStr("setControl") /\ last.j = 1
  /\ \E i \in 1..Len(dynamicForm.controls) :
        LET items == dynamicForm.controls[i].items
        IN /\ Len(items) = 2
           /\ items[1].ref = 1
           /\ items[2].ref = 0
           /\ items[2].ctl = << Prop("s", JStr("n")) >>

(***************************************************************************)
(* Properties of the error display (SpecErrors).                            *)
(***************************************************************************)
\* The positions of the failures of errs whose key has a registered function.
RegisteredAt(errs) ==
  { k \in 1..Len(errs.o) :
      errorMessageRegistry.errorMessageMap[errs.o[k].key] # NoMessageFunction }
\* The positions of the failures whose detail is a string or has a message field.
DecidingAt(errs) ==
  { k \in 1..Len(errs.o) :
      \/ IsString(errs.o[k].val)
      \/ IsPlainRecord(errs.o[k].val) /\ HasKey(errs.o[k].val.o, "message") }
First(S) == CHOOSE k \in S : \A m \in S : k <= m
Shown == last.op \in {"getFieldError", "dialogGetFieldError"}
Failing == fieldControl.touched /\ fieldControl.errors # JNull

\* C12: for a touched node with several failures, when some present key has a
\* registered message function the returned message is the one produced for
\* the first such key in recording order, also when an unregistered key with a
\* string or message detail was recorded before it.
C12_FirstRegisteredKeyWins ==
  (Shown /\ Failing /\ RegisteredAt(fieldControl.errors) # {}) =>
    LET errs == fieldControl.errors
        errorKey == errs.o[First(RegisteredAt(errs))].key
    IN fieldError = getErrorMessage(errorMessageRegistry, errorKey, errs,
                                    fieldControl.label)

\* C13: for a touched node none of whose failure keys has a registered
\* function, the message is decided by the first failure in recording order
\* whose detail is a string (returned verbatim) or has a message field (that
\* field), and is empty when there is none; for a node that is untouched or
\* has no failures the message is empty.
C13_FallbackToDetail ==
  Shown =>
    IF ~Failing THEN fieldError = JStr("")
    ELSE RegisteredAt(fieldControl.errors) = {} =>
           LET errs == fieldControl.errors
               deciding == DecidingAt(errs)
               detail == errs.o[First(deciding)].val
           IN IF deciding = {} THEN fieldError = JStr("")
              ELSE IF IsString(detail) THEN fieldError = detail
              ELSE fieldError = GetProp(detail.o, "message")

C13_Witness ==
  /\ last.op = "dialogGetFieldError"
  /\ fieldControl.touched
  /\ fieldControl.errors =
       JObj(<< Prop("required", JBool(TRUE)), Prop("custom", JStr("my text")) >>)
  /\ RegisteredAt(fieldControl.errors) = {}
  /\ fieldError = JStr("my text")

(***************************************************************************)
(* Properties of submit and reset (SpecSubmit).                             *)
(***************************************************************************)
Submitted == last.op = "onSubmit"
Built == buildForm(formConfig, registry).controls
InvalidFields ==
  { i \in 1..Len(dynamicForm.controls) :
      ~controlValid(fieldOf(formConfig, dynamicForm.controls[i].name),
                    dynamicForm.controls[i]) }

\* C14: after onSubmit on a fully valid tree the published data is the
\* current value object and the published failure set is empty; on an invalid
\* tree no value object is published, every invalid field has its failures
\* published under its name, so that the failure set is not empty, and every
\* top-level field is touched.
C14_SubmitPublishesValueOrFailures ==
  Submitted =>
    IF formValid(formConfig, dynamicForm.controls)
    THEN /\ formData = formValue(dynamicForm.controls)
         /\ formErrors = JObj(<< >>)
    ELSE /\ formData = JObj(<< >>)
         /\ formErrors.o # << >>
         /\ \A i \in InvalidFields : HasKey(formErrors.o, dynamicForm.controls[i].name)
         /\ \A i \in 1..Len(dynamicForm.controls) : dynamicForm.controls[i].touched

\* C15: with a required email field and a list of at least one item whose
\* sub-descriptor has one required text field, after the build and the apply
\* of { email: "a@b.com" } with no items, submit fails: no value object is
\* published, the failures hold a minItems failure under the list's name and
\* no entry for the email field.
C15_MinItemsShortfallReported ==
  (/\ Submitted /\ formConfig = ConfigF
   /\ ControlAt(dynamicForm.controls, "email").value = JStr("a@b.com")
   /\ ControlAt(dynamicForm.controls, "items").items = << >>) =>
    /\ ~last.flag
    /\ formData = JObj(<< >>)
    /\ HasKey(formErrors.o, "items")
    /\ HasKey(GetProp(formErrors.o, "items").o, "minItems")
    /\ ~HasKey(formErrors.o, "email")

C15_Witness ==
  /\ Submitted /\ formConfig = ConfigF
  /\ ControlAt(dynamicForm.controls, "email").value = JStr("a@b.com")
  /\ ControlAt(dynamicForm.controls, "items").items = << >>
  /\ formErrors =
       JObj(<< Prop("items",
                 JObj(<< Prop("minItems", JObj(<< Prop("required", JNum(1)),
                                                  Prop("actual", JNum(0)) >>)) >>)) >>)

\* C16: after resetForm every node holds the value it had right after the
\* build (the registry's initial value of a single-value field, no items in a
\* list), nothing is touched, the published data and errors are empty, and
\* the tree is the one that was there (its controls keep their rules).
C16_ResetRestoresBuildState ==
  last.op = "resetForm" =>
    /\ Len(dynamicForm.controls) = Len(Built)
    /\ \A i \in 1..Len(Built) :
         /\ dynamicForm.controls[i].name = Built[i].name
         /\ dynamicForm.controls[i].value = Built[i].value
         /\ dynamicForm.controls[i].items = << >>
         /\ ~dynamicForm.controls[i].touched
         /\ dynamicForm.controls[i].rules
    /\ formData = JObj(<< >>)
    /\ formErrors = JObj(<< >>)

(***************************************************************************)
(* Properties of the field type registry (SpecRegistry).                    *)
(***************************************************************************)
\* The built-in registration of a tag, if the table has one.
BuiltIn(fieldType) ==
  LET listed == { i \in 1..Len(FIELD_COMPONENT_CONFIGS) :
                    FIELD_COMPONENT_CONFIGS[i].type = fieldType }
      config == FIELD_COMPONENT_CONFIGS[CHOOSE i \in listed : TRUE]
  IN IF listed = {} THEN NoRegistration
     ELSE [component |-> config.component,
           controlType |-> getControlTypeFromComponent(config.component)]
\* The registration that is in force for a tag: the host's most recent one,
\* else the built-in one, else none.
InForce(fieldType) ==
  IF hist.registered[fieldType] # NoRegistration
  THEN hist.registered[fieldType] ELSE BuiltIn(fieldType)

\* C17: a lookup returns the component and the control kind of the most
\* recent registration for the tag, a host's registration for a built-in tag
\* made before the first lookup included, and not-found for a tag that was
\* never registered.
C17_LaterRegistrationWins ==
  /\ last.op = "get" =>
       last.arg = Found(GetProp(last.arg.o, "fieldType").s,
                        InForce(GetProp(last.arg.o, "fieldType").s).component)
  /\ last.op = "getControlType" =>
       last.arg = Found(GetProp(last.arg.o, "fieldType").s,
                        InForce(GetProp(last.arg.o, "fieldType").s).controlType)

(***************************************************************************)
(* Properties of the timing of the list operations (SpecList).              *)
(***************************************************************************)
\* C18: the list mutations are synchronous: in no reachable state has an add
\* or a remove been accepted and not yet been performed on the list.
C18_NoMutationPending ==
  \A k \in 1..Len(timers) : timers[k].op \notin {"push", "removeAt"}

(***************************************************************************)
(* Properties of the rebuild (SpecFair).                                    *)
(***************************************************************************)
NonEmptyValues == formValues # JUndefined /\ Len(formValues.o) > 0
\* Every node of the tree is as the builder makes it: never touched, without
\* rules, without items, holding the initial value of its type.
FreshTree(controls) ==
  \A i \in 1..Len(controls) :
     /\ ~controls[i].touched
     /\ ~controls[i].rules
     /\ controls[i].items = << >>
     /\ \E j \in 1..Len(formConfig.fields) :
          /\ formConfig.fields[j].name = controls[i].name
          /\ controls[i].kind = "control" =>
               controls[i].value = getInitialValue(registry, formConfig.fields[j].type)
\* The top-level nodes are the ones that were there, with their flags.
SameTree(pre, post) ==
  /\ Len(post) = Len(pre)
  /\ \A i \in 1..Len(pre) :
       /\ post[i].name = pre[i].name /\ post[i].kind = pre[i].kind
       /\ post[i].touched = pre[i].touched /\ post[i].rules = pre[i].rules

\* C19: a change of the descriptor reference leads to a rebuild, whose tree
\* keeps no node, value or touched flag of the previous one; a change of the
\* values alone schedules no rebuild and keeps the nodes of the tree; and after
\* a rebuild the current non-empty values are applied to the new tree, also
\* when their text equals the text of the values applied last.
C19_RebuildSupersedes ==
  /\ [][/\ last'.op = "hostSetConfig" => configEffectDirty'
        /\ last'.op = "configEffect" =>
             /\ ~dynamicForm'.isNull
             /\ FreshTree(dynamicForm'.controls)
             /\ ~formValuesApplied'
        /\ last'.op \in {"hostSetValues", "valuesEffect"} =>
             /\ configEffectDirty' = configEffectDirty
             /\ dynamicForm'.isNull = dynamicForm.isNull
             /\ SameTree(Cur, dynamicForm'.controls)
        /\ (/\ last'.op = "valuesEffect" /\ ~formValuesApplied
            /\ NonEmptyValues /\ ~dynamicForm.isNull) =>
             /\ last'.flag
             /\ dynamicForm' = Form(setFormValues(Cur, formConfig, registry, formValues))]_vars
  /\ configEffectDirty ~> (last.op = "configEffect")
  /\ (last.op = "configEffect" /\ NonEmptyValues) ~> (last.op = "valuesEffect" /\ last.flag)

\* the values were applied to a rebuilt tree although their text was the one
\* applied last
C19_Witness ==
  /\ last.op = "valuesEffect" /\ last.flag
  /\ last.i = 0 /\ last.j = 1
  /\ HasControl(dynamicForm.controls, "items")
  /\ Len(ControlAt(dynamicForm.controls, "items").items) = 2

(***************************************************************************)
(* Properties of a reorder followed by a synchronization (Spec).            *)
(***************************************************************************)
\* The array the values object holds for the list field f, if it holds one.
SourceArray(values, f) ==
  IF values # JUndefined /\ IsArray(GetProp(values.o, formConfig.fields[f].name))
  THEN GetProp(values.o, formConfig.fields[f].name).a ELSE << >>

\* C20: when the user has just moved an item of a list, so that the list's
\* order differs from the order of the array the host applied last, applying
\* that array again (same length) leaves the items in the order the user gave
\* them and does not put them back into the array's order.
C20_ReorderSurvivesApply ==
  (/\ Ready
   /\ last.op = "dropItem" /\ last.flag /\ last.i # last.j) =>
    \A f \in FieldIndexes :
       (/\ IsSubformInstance(f)
        /\ Len(SourceArray(hist.appliedValues, f)) = Len(ItemsOf(f))
        /\ SourceArray(hist.appliedValues, f) # ArrayValue(ItemsOf(f)).a) =>
         LET post == Apply(hist.appliedValues)
         IN ArrayValue(ControlAt(post, formConfig.fields[f].name).items)
              = ArrayValue(ItemsOf(f))

(***************************************************************************)
(* Properties of malformed values and of degraded builds (SpecApply).       *)
(***************************************************************************)
\* A host registry in which the tag custom names a component of kind group,
\* and a descriptor with a group field between a list and a single value.
GroupRegistry ==
  register(ensureInitialized(EmptyRegistry),
           [fieldType |-> "custom", component |-> "HostComponent",
            controlType |-> "group", initialValue |-> JUndefined])
GroupConfig ==
  [name |-> "H", fields |-> << ListField, Field("g", "custom", FALSE),
                               Field("a", "text", FALSE) >>]
GroupValues ==
  { JObj(<< Prop("items", i), Prop("g", g), Prop("a", JStr("x")) >>) :
      i \in {JStr("bad"), JBool(TRUE)},
      g \in {JStr("bad"), JArr(<< ItemRecord("p") >>)} }

\* C21: a call of setFormValues whose values object holds, for a list field,
\* a value that is not an array (or for a group field a value that is not a
\* plain record) leaves that field's node exactly as it was and still gives
\* every single-value field present in the object its value; the call is
\* total, so it returns normally and the validity that follows is that of the
\* resulting tree.
C21_MalformedValueLeavesNodeAndAppliesRest ==
  /\ Ready =>
       \A v \in ValueObjects :
         LET post == Apply(v)
         IN MalformedFields(v) # {} =>
              /\ Len(post) = Len(Cur)
              /\ \A i \in 1..Len(Cur) :
                   /\ Cur[i].kind = "array" => post[i] = Cur[i]
                   /\ (/\ Cur[i].kind = "control"
                       /\ GetProp(v.o, Cur[i].name) \notin {JUndefined, JNull}) =>
                        post[i] = [Cur[i] EXCEPT !.value = GetProp(v.o, Cur[i].name)]
  /\ \A v \in GroupValues :
       LET built == buildForm(GroupConfig, GroupRegistry).controls
           post == setFormValues(built, GroupConfig, GroupRegistry, v)
       IN /\ Len(post) = 3
          /\ post[1] = built[1]
          /\ post[2] = built[2]
          /\ post[3] = [built[3] EXCEPT !.value = JStr("x")]

\* a call with a malformed list value that kept both items of the list and
\* set the single-value field
C21_Witness ==
  /\ last.op = "setFormValues" /\ last.j = 1
  /\ HasControl(dynamicForm.controls, "a")
  /\ ControlAt(dynamicForm.controls, "a").value = JStr("x")
  /\ HasControl(dynamicForm.controls, "items")
  /\ LET items == ControlAt(dynamicForm.controls, "items").items
     IN Len(items) = 2 /\ items[1].ref = 1 /\ items[2].ref = 2

\* The fields a degraded build gives a node: of a registered type, first of
\* their name, and with a sub-descriptor when they are lists.
FirstOfName(fields, j) == \A m \in 1..(j - 1) : fields[m].name # fields[j].name
BuildableAt(fields) ==
  { j \in 1..Len(fields) :
      /\ IsRegisteredField(fields[j])
      /\ FirstOfName(fields, j)
      /\ DeclaredKind(fields[j]) = "array" => fields[j].config.hasFormConfig }
NoSubDescriptorConfig ==
  [name |-> "N", fields |-> << Field("items", "subform", FALSE),
                               Field("a", "text", FALSE) >>]

\* C22: right after a build, a descriptor with a repeated field name or with
\* a list field that has no sub-descriptor has a tree: the repeated
\* declaration and the list without sub-descriptor have no node and alter
\* none, so the node of a name is the one of its first declaration (kind and
\* initial value), and every other registered field has its node.
C22_DegradedBuildSkipsOffendingField ==
  /\ last.op = "configEffect" =>
       /\ ~dynamicForm.isNull
       /\ Cardinality(BuildableAt(formConfig.fields)) = Len(dynamicForm.controls)
       /\ \A j \in BuildableAt(formConfig.fields) :
            /\ HasControl(dynamicForm.controls, formConfig.fields[j].name)
            /\ LET node == ControlAt(dynamicForm.controls, formConfig.fields[j].name)
               IN /\ node.kind = DeclaredKind(formConfig.fields[j])
                  /\ node.kind = "control" =>
                       node.value = getInitialValue(registry, formConfig.fields[j].type)
  /\ last.op = "configEffect" =>
       LET built == buildForm(NoSubDescriptorConfig, registry)
       IN ~built.isNull /\ Len(built.controls) = 1 /\ built.controls[1].name = "a"

(***************************************************************************)
(* Properties of the rules of a rendered form (SpecSubmit)                 *)
(***************************************************************************)
\* the keys of an errors object, in order
ErrorKeysOf(errs) ==
  IF errs = JNull THEN << >> ELSE [i \in 1..Len(errs.o) |-> errs.o[i].key]

\* the failure set a submit publishes for the field, empty when it has none
PublishedFor(name) ==
  LET hits == { i \in 1..Len(formErrors.o) : formErrors.o[i].key = name }
  IN IF hits = {} THEN << >>
     ELSE ErrorKeysOf(formErrors.o[CHOOSE i \in hits : TRUE].val)

\* the failure keys the claim gives a string under required and minLength 2
ExpectedTextKeys(str) ==
  IF Len(str) = 0 THEN << "required" >>
  ELSE IF Len(str) < 2 THEN << "minlength" >> ELSE << >>

\* C23: a rendered text field with required and minLength 2 carries exactly
\* {required} for the empty string, exactly {minlength} for a one-character
\* string and no failure from two characters on, and a submit publishes
\* exactly that failure set for the field.
C23_RequiredAndMinLengthPartition ==
  (formConfig = ConfigM /\ ~dynamicForm.isNull) =>
     LET node == ControlAt(Cur, "t")
         field == fieldOf(formConfig, "t")
     IN (node.rules /\ IsString(node.value)) =>
          /\ ErrorKeysOf(controlErrors(field, node)) = ExpectedTextKeys(node.value.s)
          /\ last.op = "onSubmit" => PublishedFor("t") = ExpectedTextKeys(node.value.s)

\* a submit has published {minlength} for the one-character string
C23_Witness ==
  /\ formConfig = ConfigM /\ last.op = "onSubmit"
  /\ ControlAt(Cur, "t").value = JStr("b")
  /\ PublishedFor("t") = << "minlength" >>

\* a submit has published {required} for the empty string typed by the user
C23_WitnessEmpty ==
  /\ formConfig = ConfigM /\ last.op = "onSubmit"
  /\ ControlAt(Cur, "t").value = JStr("") /\ ControlAt(Cur, "t").touched
  /\ PublishedFor("t") = << "required" >>

(***************************************************************************)
(* Properties of the list steps on a rendered form (SpecRules)             *)
(***************************************************************************)
\* the indexes of the list fields of the bound descriptor that have a node
ListIndexes == { f \in 1..Len(formConfig.fields) : IsSubformInstance(f) }
ListNode(f) == ControlAt(Cur, formConfig.fields[f].name)
Carries(f, key) ==
  key \in { ErrorKeysOf(controlErrors(formConfig.fields[f], ListNode(f)))[i] :
              i \in 1..Len(ErrorKeysOf(controlErrors(formConfig.fields[f], ListNode(f)))) }

\* C24: after every apply, add, removal, move and confirmed edit a rendered
\* list carries the minItems failure exactly when its current length is below
\* minItems and the maxItems failure exactly when it is above maxItems.
C24_SizeRulesTrackLength ==
  \A f \in ListIndexes :
     LET cfg == formConfig.fields[f].config
         n == Len(ItemsOf(f))
     IN ListNode(f).rules =>
          /\ cfg.minItems # Undef => (Carries(f, "minItems") <=> n < cfg.minItems)
          /\ cfg.maxItems # Undef => (Carries(f, "maxItems") <=> n > cfg.maxItems)

\* a removal has taken the list below minItems and it carries the failure
C24_Witness ==
  /\ last.op = "timer"
  /\ \E f \in ListIndexes :
        /\ ListNode(f).rules
        /\ Len(ItemsOf(f)) < formConfig.fields[f].config.minItems
        /\ Len(ItemsOf(f)) > 0
        /\ Carries(f, "minItems")

\* an apply has taken the list above maxItems and it carries the failure
C24_WitnessAbove ==
  /\ last.op = "setFormValues"
  /\ \E f \in ListIndexes :
        /\ Len(ItemsOf(f)) > formConfig.fields[f].config.maxItems
        /\ Carries(f, "maxItems")

(***************************************************************************)
(* Properties of the list steps next to submits (SpecTouch)                *)
(***************************************************************************)
\* the step is an addItem, a deleteItem or a dropItem call, the save of the
\* add dialog, the append of a confirmed add or a deferred removal
IsListStep ==
  \/ last'.op \in {"addItem", "deleteItem", "dropItem", "save"}
  \/ last'.op = "timer" /\ last'.arg \in {JStr("push"), JStr("removeAt")}

\* C25: the append of an add, a removal and a move on a list leave the value,
\* the touched flag and the failure set of every other field as they were,
\* and leave the touched flag of the list itself as it was.
C25_ListStepsLeaveSiblingsAndTouched ==
  [][IsListStep =>
       /\ Len(dynamicForm'.controls) = Len(Cur)
       /\ \A i \in 1..Len(Cur) :
             LET pre == Cur[i]
                 post == dynamicForm'.controls[i]
                 field == fieldOf(formConfig, pre.name)
             IN /\ post.name = pre.name
                /\ post.touched = pre.touched
                /\ pre.kind # "array" =>
                      /\ post.value = pre.value
                      /\ controlErrors(field, post) = controlErrors(field, pre)]_vars

\* a removal has run on a list a submit had marked as touched, next to an
\* email field that still carries its failure
C25_Witness ==
  /\ last.op = "timer" /\ last.arg = JStr("removeAt")
  /\ formConfig = ConfigF
  /\ ControlAt(Cur, "items").touched
  /\ ControlAt(Cur, "email").touched
  /\ controlErrors(fieldOf(formConfig, "email"), ControlAt(Cur, "email")) # JNull

\* a move has run on a list no submit has touched
C25_WitnessMove ==
  /\ last.op = "dropItem" /\ last.flag
  /\ formConfig = ConfigF
  /\ ~ControlAt(Cur, "items").touched
  /\ ControlAt(Cur, "email").value = JStr("x")

(***************************************************************************)
(* Properties of the items the synchronizer builds (SpecSubmit)            *)
(***************************************************************************)
\* the item has a required sub-field whose value is empty
HasEmptyRequired(field, item) ==
  \E m \in 1..Len(field.config.formConfig) :
     /\ field.config.formConfig[m].required
     /\ IsEmptyInputValue(GetProp(item.ctl, field.config.formConfig[m].name))

\* a list whose sub-descriptor declares a registered and an unregistered type
MixedItemField ==
  SubformField("items",
    SubformConfig(<< Field("s", "text", TRUE), Field("u", "custom", FALSE) >>,
                  Undef, Undef, TRUE, FALSE))

\* C26: on a rendered form a list that holds an item whose required sub-field
\* is empty is invalid and so is the tree, whether the add dialog or an apply
\* of external values built the item; and an item built from external values
\* has nodes only for the sub-fields whose type is registered.
C26_ItemsCarryRulesOfSubDescriptor ==
  ~dynamicForm.isNull =>
    /\ \A i \in 1..Len(Cur) :
          LET field == fieldOf(formConfig, Cur[i].name)
          IN (Cur[i].kind = "array" /\ Cur[i].rules /\ field.config.hasFormConfig
              /\ \E j \in 1..Len(Cur[i].items) : HasEmptyRequired(field, Cur[i].items[j]))
             => /\ ~controlValid(field, Cur[i])
                /\ ~formValid(formConfig, Cur)
    /\ last.op = "setFormValues" =>
          \A built \in { createFormGroupForSubformItem(MixedItemField, ItemRecord("p"), registry) } :
             /\ Len(built) = 1
             /\ \A m \in 1..Len(built[1].ctl) :
                   \E j \in 1..Len(MixedItemField.config.formConfig) :
                      /\ MixedItemField.config.formConfig[j].name = built[1].ctl[m].key
                      /\ getControlType(registry, MixedItemField.config.formConfig[j].type)
                           # NoEntry

(***************************************************************************)
(* Properties of queued list mutations (SpecBounds)                        *)
(***************************************************************************)
\* a queued removal still points at the node it was accepted for: no removal
\* of the same list queued before it is at its index or below
RemovalTargetsStable ==
  \A a, b \in 1..Len(timers) :
     (a < b /\ timers[a].op = "removeAt" /\ timers[b].op = "removeAt"
      /\ timers[a].f = timers[b].f)
     => timers[a].index > timers[b].index

\* C27: under every interleaving of add and delete requests with their
\* deferred appends and removals the length of a list that started within
\* minItems..maxItems stays within them, and every queued removal removes the
\* node that was at its index when the request was accepted.
C27_BoundsHoldUnderDeferredMutations ==
  /\ \A f \in ListIndexes :
        LET cfg == formConfig.fields[f].config
        IN /\ cfg.minItems # Undef => Len(ItemsOf(f)) >= cfg.minItems
           /\ cfg.maxItems # Undef => Len(ItemsOf(f)) <= cfg.maxItems
  /\ RemovalTargetsStable

(***************************************************************************)
(* Properties of an edit whose list changes before the commit (SpecEdit)   *)
(***************************************************************************)
\* an edit of the item at index of the list f is open or its commit is queued
EditPending(f, index) ==
  \/ dialog.open /\ dialog.mode = "edit" /\ dialog.f = f /\ dialog.index = index
  \/ \E t \in 1..Len(timers) :
        timers[t].op = "setControl" /\ timers[t].f = f /\ timers[t].index = index

\* C28: the commit of an edit replaces the node the dialog was opened on.  The
\* commit writes to the index taken at the opening, so from the opening to
\* the commit every step (a move, a removal, an apply of external values)
\* must leave the opened node at that index; and the commit leaves the
\* length of the list as it is.
C28_EditCommitLandsOnOpenedItem ==
  [][\A f \in FieldIndexes :
       IsSubformInstance(f) =>
         /\ \A index \in Positions :
               (EditPending(f, index) /\ EditPending(f, index)') =>
                  /\ index < Len(ItemsAfter(f))
                  /\ ItemsAfter(f)[index + 1].ref = index + 1
         /\ (last'.op = "timer" /\ last'.arg = JStr("setControl") /\ last'.i = f) =>
               Len(ItemsAfter(f)) = Len(ItemsOf(f))]_vars

(***************************************************************************)
(* Properties of clear() of the registries (SpecClear)                     *)
(***************************************************************************)
\* C29: once clear() has been called on the field type registry, has(t) is
\* false and get(t) finds nothing for every tag t no register call has named
\* since, whether or not a lookup preceded the clear(); and right after
\* clear() on the error message registry has(k) is false for every key.
C29_ClearIsLasting ==
  /\ hist.cleared =>
        \A t \in Tags :
           hist.registered[t] = NoRegistration =>
              ~has(registry, t) /\ get(registry, t) = NoEntry
  /\ last.op = "clearMessages" =>
        \A k \in ErrorKeys : ~hasErrorMessage(errorMessageRegistry, k)

(***************************************************************************)
(* Properties of the published submit results (SpecSubmit)                 *)
(***************************************************************************)
\* hasFormData and hasFormErrors of the component
hasFormData == formData.o # << >>
hasFormErrors == formErrors.o # << >>

====
